---- MODULE Spec2Model ----
(***************************************************************************)
(* A model of the indexer's write path: the BlockProcessor                 *)
(* (src/src/sync/processor.rs), the relational store it writes             *)
(* (src/src/db/schema.rs, src/src/db/mod.rs) and the SyncService loop that  *)
(* feeds it (src/src/sync/mod.rs).                                          *)
(*                                                                         *)
(* Conventions.  A Rust Option<T> is a sequence of length 0 (None) or 1    *)
(* (Some(x) = <<x>>); a JSON field that may be absent is an Option.  A     *)
(* table is the sequence of its rows in insertion order.  Columns that are *)
(* copied from the document to the row and read by no statement (parent_id,*)
(* difficulty, size, proof_bytes, registers, creation_height) are left out. *)
(***************************************************************************)
EXTENDS Integers, Sequences, FiniteSets, TLC

None == <<>>
Some(x) == <<x>>
IsSome(o) == Len(o) > 0
IsNone(o) == Len(o) = 0

(***************************************************************************)
(* BlockProcessor: its six counters                                        *)
(***************************************************************************)
\* BlockProcessor::new: every counter starts at 0, whatever the store holds.
NewCounters ==
  [ global_tx_index    |-> 0,
    global_box_index   |-> 0,
    global_block_index |-> 0,
    box_asset_id       |-> 0,
    input_id           |-> 0,
    data_input_id      |-> 0 ]

\* CollectedOps::new
NewCollectedOps ==
  [ block        |-> None,
    transactions |-> <<>>,
    boxes        |-> <<>>,
    inputs       |-> <<>>,
    data_inputs  |-> <<>>,
    box_assets   |-> <<>>,
    tokens       |-> <<>>,
    addresses    |-> <<>> ]

\* ergo_tree::ergo_tree_to_address(..).unwrap_or_else(|| hex): the address
\* column of a box is a function of its script alone.
AddressOf(ergo_tree_hex) ==
  CASE ergo_tree_hex = "treeA" -> "addrA"
    [] ergo_tree_hex = "treeB" -> "addrB"
    [] OTHER -> ergo_tree_hex

(***************************************************************************)
(* The collectors.  c = [self, collected, err]: the processor's counters,  *)
(* the CollectedOps under construction and whether a `?` has returned.     *)
(***************************************************************************)
\* A mutant of collect_asset: registers a token for an asset at any index.
CollectAssetAnyIndex(c, asset, box_id, height, asset_idx, first_input_box_id) ==
  IF IsNone(asset.tokenId) THEN [c EXCEPT !.err = TRUE]
  ELSE
    LET token_id == asset.tokenId[1]
        id == c.self.box_asset_id + 1
        c1 == [c EXCEPT !.self.box_asset_id = id,
                        !.collected.box_assets = Append(@,
                            [ id |-> id, box_id |-> box_id, token_id |-> token_id,
                              amount |-> asset.amount, asset_index |-> asset_idx ])]
        is_minting == IsSome(first_input_box_id) /\ first_input_box_id[1] = token_id
    IN IF is_minting
       THEN [c1 EXCEPT !.collected.tokens = Append(@,
                [ token_id |-> token_id, box_id |-> box_id,
                  emission_amount |-> asset.amount, creation_height |-> height ])]
       ELSE c1

CollectAsset(c, asset, box_id, height, asset_idx, first_input_box_id) ==
  IF IsNone(asset.tokenId) THEN [c EXCEPT !.err = TRUE]
  ELSE
    LET token_id == asset.tokenId[1]
        id == c.self.box_asset_id + 1
        c1 == [c EXCEPT !.self.box_asset_id = id,
                        !.collected.box_assets = Append(@,
                            [ id |-> id, box_id |-> box_id, token_id |-> token_id,
                              amount |-> asset.amount, asset_index |-> asset_idx ])]
        is_minting == IsSome(first_input_box_id) /\ first_input_box_id[1] = token_id
    IN IF asset_idx = 0 /\ is_minting
       THEN [c1 EXCEPT !.collected.tokens = Append(@,
                [ token_id |-> token_id, box_id |-> box_id,
                  emission_amount |-> asset.amount, creation_height |-> height ])]
       ELSE c1

\* for (asset_idx, asset) in assets.iter().enumerate() { self.collect_asset(..)?; }
RECURSIVE CollectAssets(_, _, _, _, _, _)
CollectAssets(c, assets, i, box_id, height, first_input_box_id) ==
  IF c.err \/ i > Len(assets) THEN c
  ELSE CollectAssets(
         CollectAsset(c, assets[i], box_id, height, i - 1, first_input_box_id),
         assets, i + 1, box_id, height, first_input_box_id)

\* A mutant of collect_output: the box row takes global_box_index without the
\* counter having been advanced.
CollectOutputStaleIndex(c, output, tx_id, height, output_idx, first_input_box_id) ==
  IF IsNone(output.boxId) THEN [c EXCEPT !.err = TRUE]
  ELSE
    LET box_id == output.boxId[1]
        address == AddressOf(output.ergoTree)
        gi == c.self.global_box_index
        c1 == [c EXCEPT !.collected.boxes = Append(@,
                            [ box_id |-> box_id, tx_id |-> tx_id,
                              output_index |-> output_idx,
                              ergo_tree |-> output.ergoTree, address |-> address,
                              value |-> output.value, settlement_height |-> height,
                              global_index |-> gi ]),
                        !.collected.addresses = Append(@,
                            [ address |-> address, height |-> height ])]
    IN IF IsSome(output.assets)
       THEN CollectAssets(c1, output.assets[1], 1, box_id, height, first_input_box_id)
       ELSE c1

CollectOutput(c, output, tx_id, height, output_idx, first_input_box_id) ==
  IF IsNone(output.boxId) THEN [c EXCEPT !.err = TRUE]
  ELSE
    LET box_id == output.boxId[1]
        address == AddressOf(output.ergoTree)
        gi == c.self.global_box_index + 1
        c1 == [c EXCEPT !.self.global_box_index = gi,
                        !.collected.boxes = Append(@,
                            [ box_id |-> box_id, tx_id |-> tx_id,
                              output_index |-> output_idx,
                              ergo_tree |-> output.ergoTree, address |-> address,
                              value |-> output.value, settlement_height |-> height,
                              global_index |-> gi ]),
                        !.collected.addresses = Append(@,
                            [ address |-> address, height |-> height ])]
    IN IF IsSome(output.assets)
       THEN CollectAssets(c1, output.assets[1], 1, box_id, height, first_input_box_id)
       ELSE c1

RECURSIVE CollectOutputs(_, _, _, _, _, _)
CollectOutputs(c, outputs, i, tx_id, height, first_input_box_id) ==
  IF c.err \/ i > Len(outputs) THEN c
  ELSE CollectOutputs(
         CollectOutput(c, outputs[i], tx_id, height, i - 1, first_input_box_id),
         outputs, i + 1, tx_id, height, first_input_box_id)

CollectInput(c, input, tx_id, height, input_idx) ==
  IF IsNone(input.boxId) THEN [c EXCEPT !.err = TRUE]
  ELSE
    LET id == c.self.input_id + 1
    IN [c EXCEPT !.self.input_id = id,
                 !.collected.inputs = Append(@,
                     [ id |-> id, tx_id |-> tx_id, box_id |-> input.boxId[1],
                       height |-> height, input_index |-> input_idx ])]

RECURSIVE CollectInputs(_, _, _, _, _)
CollectInputs(c, inputs, i, tx_id, height) ==
  IF c.err \/ i > Len(inputs) THEN c
  ELSE CollectInputs(CollectInput(c, inputs[i], tx_id, height, i - 1),
                     inputs, i + 1, tx_id, height)

CollectDataInput(c, data_input, tx_id, input_idx) ==
  IF IsNone(data_input.boxId) THEN [c EXCEPT !.err = TRUE]
  ELSE
    LET id == c.self.data_input_id + 1
    IN [c EXCEPT !.self.data_input_id = id,
                 !.collected.data_inputs = Append(@,
                     [ id |-> id, tx_id |-> tx_id, box_id |-> data_input.boxId[1],
                       input_index |-> input_idx ])]

RECURSIVE CollectDataInputs(_, _, _, _)
CollectDataInputs(c, data_inputs, i, tx_id) ==
  IF c.err \/ i > Len(data_inputs) THEN c
  ELSE CollectDataInputs(CollectDataInput(c, data_inputs[i], tx_id, i - 1),
                         data_inputs, i + 1, tx_id)

\* let coinbase = input_count == 0 || tx_idx == 0;
\* A mutant: only the first transaction of a block counts as coinbase.
IsCoinbaseIndexOnly(input_count, tx_idx) == tx_idx = 0

IsCoinbase(input_count, tx_idx) == input_count = 0 \/ tx_idx = 0

CollectTransactionOps(c, tx, block_id, height, timestamp, tx_idx) ==
  IF IsNone(tx.id) \/ IsNone(tx.outputs) THEN [c EXCEPT !.err = TRUE]
  ELSE
    LET tx_id == tx.id[1]
        outputs == tx.outputs[1]
        input_count == IF IsSome(tx.inputs) THEN Len(tx.inputs[1]) ELSE 0
        first_input_box_id ==
          IF IsSome(tx.inputs) /\ Len(tx.inputs[1]) > 0
          THEN tx.inputs[1][1].boxId
          ELSE None
        gi == c.self.global_tx_index + 1
        c1 == [c EXCEPT !.self.global_tx_index = gi,
                        !.collected.transactions = Append(@,
                            [ tx_id |-> tx_id, block_id |-> block_id,
                              inclusion_height |-> height, timestamp |-> timestamp,
                              index_in_block |-> tx_idx, global_index |-> gi,
                              coinbase |-> IsCoinbase(input_count, tx_idx),
                              input_count |-> input_count,
                              output_count |-> Len(outputs) ])]
        c2 == IF IsSome(tx.inputs)
              THEN CollectInputs(c1, tx.inputs[1], 1, tx_id, height)
              ELSE c1
        c3 == IF IsSome(tx.dataInputs)
              THEN CollectDataInputs(c2, tx.dataInputs[1], 1, tx_id)
              ELSE c2
    IN CollectOutputs(c3, outputs, 1, tx_id, height, first_input_box_id)

\* for (tx_idx, tx) in transactions.iter().enumerate() { self.collect_transaction_ops(..)?; }
RECURSIVE CollectTransactions(_, _, _, _, _, _)
CollectTransactions(c, transactions, i, block_id, height, timestamp) ==
  IF c.err \/ i > Len(transactions) THEN c
  ELSE CollectTransactions(
         CollectTransactionOps(c, transactions[i], block_id, height, timestamp, i - 1),
         transactions, i + 1, block_id, height, timestamp)

(***************************************************************************)
(* The store: migration 001's tables with their keys and constraints.      *)
(* A statement maps a store to [err, db]; err is a constraint violation.   *)
(***************************************************************************)
EmptyDb ==
  [ blocks        |-> <<>>,
    transactions  |-> <<>>,
    boxes         |-> <<>>,
    box_assets    |-> <<>>,
    tokens        |-> <<>>,
    inputs        |-> <<>>,
    data_inputs   |-> <<>>,
    address_stats |-> <<>>,
    network_stats |-> <<>> ]

Ok(d) == [err |-> FALSE, db |-> d]
Fail(d) == [err |-> TRUE, db |-> d]

HasBlock(d, block_id) == \E i \in 1..Len(d.blocks) : d.blocks[i].block_id = block_id
HasTx(d, tx_id) == \E i \in 1..Len(d.transactions) : d.transactions[i].tx_id = tx_id
HasBox(d, box_id) == \E i \in 1..Len(d.boxes) : d.boxes[i].box_id = box_id

\* A mutant of the block insert: as if idx_blocks_height did not exist.
InsertBlockNoHeightIndex(d, b) ==
  IF HasBlock(d, b.block_id)
  THEN Ok([d EXCEPT !.blocks = [i \in 1..Len(d.blocks) |->
             IF d.blocks[i].block_id = b.block_id
             THEN [d.blocks[i] EXCEPT !.main_chain = TRUE]
             ELSE d.blocks[i]]])
  ELSE Ok([d EXCEPT !.blocks = Append(@,
            [ block_id |-> b.block_id, height |-> b.height,
              timestamp |-> b.timestamp, tx_count |-> b.tx_count,
              main_chain |-> TRUE, global_index |-> b.global_index ])])

\* INSERT INTO blocks .. VALUES (.., TRUE, ?) ON CONFLICT (block_id) DO UPDATE SET
\* main_chain = TRUE; idx_blocks_height is UNIQUE (height) WHERE main_chain = TRUE.
InsertBlock(d, b) ==
  IF HasBlock(d, b.block_id)
  THEN LET upd == [i \in 1..Len(d.blocks) |->
                     IF d.blocks[i].block_id = b.block_id
                     THEN [d.blocks[i] EXCEPT !.main_chain = TRUE]
                     ELSE d.blocks[i]]
       IN IF \E i, j \in 1..Len(upd) :
               i /= j /\ upd[i].main_chain /\ upd[j].main_chain
               /\ upd[i].height = upd[j].height
          THEN Fail(d)
          ELSE Ok([d EXCEPT !.blocks = upd])
  ELSE IF \E i \in 1..Len(d.blocks) :
            d.blocks[i].main_chain /\ d.blocks[i].height = b.height
       THEN Fail(d)
       ELSE Ok([d EXCEPT !.blocks = Append(@,
                 [ block_id |-> b.block_id, height |-> b.height,
                   timestamp |-> b.timestamp, tx_count |-> b.tx_count,
                   main_chain |-> TRUE, global_index |-> b.global_index ])])

\* INSERT INTO transactions .. ON CONFLICT (tx_id) DO NOTHING;
\* FOREIGN KEY (block_id) REFERENCES blocks(block_id).
InsertTransaction(d, tx) ==
  IF HasTx(d, tx.tx_id) THEN Ok(d)
  ELSE IF ~HasBlock(d, tx.block_id) THEN Fail(d)
  ELSE Ok([d EXCEPT !.transactions = Append(@, tx)])

\* INSERT INTO boxes .. ON CONFLICT (box_id) DO NOTHING; the spend columns take
\* their default, NULL.  FOREIGN KEY (tx_id) REFERENCES transactions(tx_id).
InsertBox(d, b) ==
  IF HasBox(d, b.box_id) THEN Ok(d)
  ELSE IF ~HasTx(d, b.tx_id) THEN Fail(d)
  ELSE Ok([d EXCEPT !.boxes = Append(@,
            [ box_id |-> b.box_id, tx_id |-> b.tx_id, output_index |-> b.output_index,
              ergo_tree |-> b.ergo_tree, address |-> b.address, value |-> b.value,
              settlement_height |-> b.settlement_height,
              global_index |-> b.global_index,
              spent_tx_id |-> None, spent_index |-> None, spent_height |-> None ])])

\* A mutant of the spend update: the spending height is not written.
UpdateSpentNoHeight(d, input) ==
  Ok([d EXCEPT !.boxes = [i \in 1..Len(d.boxes) |->
        IF d.boxes[i].box_id = input.box_id
        THEN [d.boxes[i] EXCEPT !.spent_tx_id = Some(input.tx_id),
                                !.spent_index = Some(input.input_index)]
        ELSE d.boxes[i]]])

\* UPDATE boxes SET spent_tx_id = ?, spent_index = ?, spent_height = ? WHERE box_id = ?
UpdateSpent(d, input) ==
  Ok([d EXCEPT !.boxes = [i \in 1..Len(d.boxes) |->
        IF d.boxes[i].box_id = input.box_id
        THEN [d.boxes[i] EXCEPT !.spent_tx_id = Some(input.tx_id),
                                !.spent_index = Some(input.input_index),
                                !.spent_height = Some(input.height)]
        ELSE d.boxes[i]]])

\* INSERT INTO inputs (id, ..) .. ON CONFLICT DO NOTHING: the only key is id.
\* FOREIGN KEY (tx_id) REFERENCES transactions, (box_id) REFERENCES boxes.
InsertInput(d, input) ==
  IF \E i \in 1..Len(d.inputs) : d.inputs[i].id = input.id THEN Ok(d)
  ELSE IF ~HasTx(d, input.tx_id) \/ ~HasBox(d, input.box_id) THEN Fail(d)
  ELSE Ok([d EXCEPT !.inputs = Append(@,
            [ id |-> input.id, tx_id |-> input.tx_id, box_id |-> input.box_id,
              input_index |-> input.input_index ])])

\* INSERT INTO data_inputs (id, ..) .. ON CONFLICT DO NOTHING;
\* FOREIGN KEY (tx_id) REFERENCES transactions(tx_id).
InsertDataInput(d, di) ==
  IF \E i \in 1..Len(d.data_inputs) : d.data_inputs[i].id = di.id THEN Ok(d)
  ELSE IF ~HasTx(d, di.tx_id) THEN Fail(d)
  ELSE Ok([d EXCEPT !.data_inputs = Append(@, di)])

\* INSERT INTO box_assets (id, ..) .. ON CONFLICT DO NOTHING;
\* FOREIGN KEY (box_id) REFERENCES boxes(box_id).
InsertBoxAsset(d, asset) ==
  IF \E i \in 1..Len(d.box_assets) : d.box_assets[i].id = asset.id THEN Ok(d)
  ELSE IF ~HasBox(d, asset.box_id) THEN Fail(d)
  ELSE Ok([d EXCEPT !.box_assets = Append(@, asset)])

\* INSERT INTO tokens .. ON CONFLICT (token_id) DO NOTHING;
\* FOREIGN KEY (box_id) REFERENCES boxes(box_id).
InsertToken(d, token) ==
  IF \E i \in 1..Len(d.tokens) : d.tokens[i].token_id = token.token_id THEN Ok(d)
  ELSE IF ~HasBox(d, token.box_id) THEN Fail(d)
  ELSE Ok([d EXCEPT !.tokens = Append(@, token)])

\* INSERT INTO address_stats (address, tx_count, first_seen_height, last_seen_height, ..)
\* VALUES (?, 1, ?, ?, ?) ON CONFLICT (address) DO UPDATE SET
\* tx_count = tx_count + 1, last_seen_height = EXCLUDED.last_seen_height
UpsertAddressStats(d, addr) ==
  IF \E i \in 1..Len(d.address_stats) : d.address_stats[i].address = addr.address
  THEN Ok([d EXCEPT !.address_stats = [i \in 1..Len(d.address_stats) |->
             IF d.address_stats[i].address = addr.address
             THEN [d.address_stats[i] EXCEPT !.tx_count = @ + 1,
                                             !.last_seen_height = addr.height]
             ELSE d.address_stats[i]]])
  ELSE Ok([d EXCEPT !.address_stats = Append(@,
            [ address |-> addr.address, tx_count |-> 1,
              first_seen_height |-> addr.height,
              last_seen_height |-> addr.height ])])

\* update_network_stats_sync: INSERT INTO network_stats .. ON CONFLICT (timestamp)
\* DO UPDATE SET height = EXCLUDED.height, ..
UpdateNetworkStats(d, height, timestamp) ==
  IF \E i \in 1..Len(d.network_stats) : d.network_stats[i].timestamp = timestamp
  THEN Ok([d EXCEPT !.network_stats = [i \in 1..Len(d.network_stats) |->
             IF d.network_stats[i].timestamp = timestamp
             THEN [d.network_stats[i] EXCEPT !.height = height]
             ELSE d.network_stats[i]]])
  ELSE Ok([d EXCEPT !.network_stats = Append(@,
            [ timestamp |-> timestamp, height |-> height ])])

(***************************************************************************)
(* The flush: the closure process_block hands to execute_transaction.      *)
(* Each loop stops at the first failing statement (`?`).                   *)
(***************************************************************************)
RECURSIVE InsertTransactions(_, _, _)
InsertTransactions(r, rows, i) ==
  IF r.err \/ i > Len(rows) THEN r
  ELSE InsertTransactions(InsertTransaction(r.db, rows[i]), rows, i + 1)

RECURSIVE InsertBoxes(_, _, _)
InsertBoxes(r, rows, i) ==
  IF r.err \/ i > Len(rows) THEN r
  ELSE InsertBoxes(InsertBox(r.db, rows[i]), rows, i + 1)

\* for input in &collected.inputs { UPDATE boxes ..?; INSERT INTO inputs ..?; }
SpendAndInsertInput(d, input) ==
  LET u == UpdateSpent(d, input)
  IN IF u.err THEN u ELSE InsertInput(u.db, input)

RECURSIVE SpendAndInsertInputs(_, _, _)
SpendAndInsertInputs(r, rows, i) ==
  IF r.err \/ i > Len(rows) THEN r
  ELSE SpendAndInsertInputs(SpendAndInsertInput(r.db, rows[i]), rows, i + 1)

RECURSIVE InsertDataInputs(_, _, _)
InsertDataInputs(r, rows, i) ==
  IF r.err \/ i > Len(rows) THEN r
  ELSE InsertDataInputs(InsertDataInput(r.db, rows[i]), rows, i + 1)

RECURSIVE InsertBoxAssets(_, _, _)
InsertBoxAssets(r, rows, i) ==
  IF r.err \/ i > Len(rows) THEN r
  ELSE InsertBoxAssets(InsertBoxAsset(r.db, rows[i]), rows, i + 1)

RECURSIVE InsertTokens(_, _, _)
InsertTokens(r, rows, i) ==
  IF r.err \/ i > Len(rows) THEN r
  ELSE InsertTokens(InsertToken(r.db, rows[i]), rows, i + 1)

RECURSIVE UpsertAddresses(_, _, _)
UpsertAddresses(r, rows, i) ==
  IF r.err \/ i > Len(rows) THEN r
  ELSE UpsertAddresses(UpsertAddressStats(r.db, rows[i]), rows, i + 1)

\* let update_stats = height % 100 == 0;
StatsInterval == 100

\* The statements of the closure, in the closure's order, on the connection's
\* working state; the result's db is the working state at the point reached.
FlushStatements(d, collected) ==
  LET b  == collected.block[1]
      r1 == InsertBlock(d, b)
      r2 == InsertTransactions(r1, collected.transactions, 1)
      r3 == InsertBoxes(r2, collected.boxes, 1)
      r4 == SpendAndInsertInputs(r3, collected.inputs, 1)
      r5 == InsertDataInputs(r4, collected.data_inputs, 1)
      r6 == InsertBoxAssets(r5, collected.box_assets, 1)
      r7 == InsertTokens(r6, collected.tokens, 1)
      r8 == UpsertAddresses(r7, collected.addresses, 1)
  IN IF r8.err \/ b.height % StatsInterval /= 0 THEN r8
     ELSE UpdateNetworkStats(r8.db, b.height, b.timestamp)

\* Database::execute_transaction is called by process_block and defined in no
\* source file; it is modelled from the specification's `transaction(fn)`:
\* BEGIN, the closure, COMMIT, and ROLLBACK on any error.
ExecuteTransaction(d, r) ==
  IF r.err THEN Fail(d) ELSE Ok(r.db)

(***************************************************************************)
(* process_block                                                           *)
(***************************************************************************)
\* Lines 34-44: the `?` exits on a missing header, blockTransactions,
\* transactions array, block id or height.
HeaderMalformed(block) ==
  \/ IsNone(block.header)
  \/ IsNone(block.blockTransactions)
  \/ IsNone(block.blockTransactions[1].transactions)
  \/ IsNone(block.header[1].id)
  \/ IsNone(block.header[1].height)

\* Lines 92-123: advance global_block_index, build the block row, collect every
\* transaction; the result's self holds the counters as the call leaves them.
CollectBlock(self, block) ==
  LET header == block.header[1]
      transactions == block.blockTransactions[1].transactions[1]
      block_id == header.id[1]
      height == header.height[1]
      gi == self.global_block_index + 1
      c0 == [ self |-> [self EXCEPT !.global_block_index = gi],
              collected |-> [NewCollectedOps EXCEPT !.block = Some(
                  [ block_id |-> block_id, height |-> height,
                    timestamp |-> header.timestamp,
                    tx_count |-> Len(transactions), global_index |-> gi ])],
              err |-> FALSE ]
  IN CollectTransactions(c0, transactions, 1, block_id, height, header.timestamp)

\* A mutant of lines 113-127: an error while collecting is not propagated and the
\* rows collected so far are flushed.
ApplyCollectedIgnoringError(d, c) ==
  LET r == ExecuteTransaction(d, FlushStatements(d, c.collected))
  IN [ err |-> c.err \/ r.err, db |-> r.db,
       stage |-> IF c.err THEN "collect" ELSE IF r.err THEN "sql" ELSE "ok",
       dirty |-> FlushStatements(d, c.collected).db ]

\* Lines 113-127 and 274: a collector's error returns before any statement runs;
\* otherwise the closure runs inside execute_transaction.  stage and dirty record
\* where the call ended and the connection's working state at that point.
ApplyCollected(d, c) ==
  IF c.err
  THEN [ err |-> TRUE, db |-> d, stage |-> "collect", dirty |-> d ]
  ELSE LET f == FlushStatements(d, c.collected)
           r == ExecuteTransaction(d, f)
       IN [ err |-> r.err, db |-> r.db,
            stage |-> IF r.err THEN "sql" ELSE "ok", dirty |-> f.db ]

\* process_block(&mut self, block) -> Result<()>: [self, db, err, stage, dirty].
ProcessBlock(self, d, block) ==
  IF HeaderMalformed(block)
  THEN [ self |-> self, db |-> d, err |-> TRUE, stage |-> "parse", dirty |-> d ]
  ELSE LET c == CollectBlock(self, block)
           a == ApplyCollected(d, c)
       IN [ self |-> c.self, db |-> a.db, err |-> a.err,
            stage |-> a.stage, dirty |-> a.dirty ]

(***************************************************************************)
(* Block documents: what GET /blocks/{id} returns.                         *)
(***************************************************************************)
In(box) == [boxId |-> Some(box)]
Asset(token, amount) == [tokenId |-> Some(token), amount |-> amount]
Out(box, tree, value, assets) ==
  [boxId |-> Some(box), value |-> value, ergoTree |-> tree, assets |-> assets]
Tx(id, inputs, dataInputs, outputs) ==
  [id |-> Some(id), inputs |-> inputs, dataInputs |-> dataInputs,
   outputs |-> Some(outputs)]
Block(id, height, timestamp, transactions) ==
  [ header |-> Some([id |-> Some(id), height |-> Some(height), timestamp |-> timestamp]),
    blockTransactions |-> Some([transactions |-> Some(transactions)]) ]

\* The main chain.  Height 0: a coinbase without an inputs array creates X and K.
Block0 ==
  Block("b0", 0, 10,
    << Tx("c0", None, None, << Out("X", "treeA", 5, None), Out("K", "treeA", 7, None) >>) >>)

\* Height 1: a coinbase, then t1 spends K and X, reads M1 and mints token K (its
\* first input's box id) into Y; Z carries the same token id at asset index 0.
Block1 ==
  Block("b1", 1, 20,
    << Tx("c1", Some(<<>>), None, << Out("M1", "treeB", 1, None) >>),
       Tx("t1", Some(<< In("K"), In("X") >>), Some(<< In("M1") >>),
          << Out("Y", "treeA", 6, Some(<< Asset("K", 10) >>)),
             Out("Z", "treeB", 6, Some(<< Asset("K", 5) >>)) >>) >>)

\* Height 2: t2 spends Y; W carries token K at asset index 0 and a token whose id
\* is t2's first input at asset index 1.
Block2 ==
  Block("b2", 2, 30,
    << Tx("t2", Some(<< In("Y") >>), None,
          << Out("W", "treeB", 6, Some(<< Asset("K", 10), Asset("Y", 4) >>)) >>) >>)

\* Another block id at height 1 (block_ids_at_height returns several ids at a
\* fork); its second transaction has no inputs array.
Fork1 ==
  Block("f1", 1, 20,
    << Tx("c1f", Some(<<>>), None, << Out("F", "treeB", 2, None) >>),
       Tx("e1", None, None, << Out("E", "treeA", 1, None) >>) >>)

\* Malformed documents: no header; a second transaction without outputs.
NoHeader ==
  [ header |-> None, blockTransactions |-> Some([transactions |-> Some(<<>>)]) ]

NoOutputs ==
  Block("m2", 2, 30,
    << Tx("c2", Some(<<>>), Some(<< In("X") >>), << Out("M2", "treeB", 1, None) >>),
       [ id |-> Some("t3"), inputs |-> Some(<< In("M2") >>), dataInputs |-> None,
         outputs |-> None ] >>)

\* One document per required field of process_block and its collectors, each
\* missing that field only; the collectors' fields are missing in the second
\* transaction, after the first has been collected.
Header(id, height) == [id |-> id, height |-> height, timestamp |-> 30]

Coinbase2 == Tx("c2", Some(<<>>), None, << Out("M2", "treeB", 1, None) >>)

Doc(header, transactions) ==
  [ header |-> Some(header),
    blockTransactions |-> Some([transactions |-> transactions]) ]

NoBlockTransactions ==
  [ header |-> Some(Header(Some("m2"), Some(2))), blockTransactions |-> None ]

NoTransactions == Doc(Header(Some("m2"), Some(2)), None)

NoBlockId == Doc(Header(None, Some(2)), Some(<< Coinbase2 >>))

NoHeight == Doc(Header(Some("m2"), None), Some(<< Coinbase2 >>))

NoTxId ==
  Block("m2", 2, 30,
    << Coinbase2,
       [ id |-> None, inputs |-> Some(<< In("M2") >>), dataInputs |-> None,
         outputs |-> Some(<< Out("N", "treeA", 1, None) >>) ] >>)

NoInputBoxId ==
  Block("m2", 2, 30,
    << Coinbase2,
       Tx("t3", Some(<< In("M2"), [boxId |-> None] >>), None,
          << Out("N", "treeA", 1, None) >>) >>)

NoDataInputBoxId ==
  Block("m2", 2, 30,
    << Coinbase2,
       Tx("t3", Some(<< In("M2") >>), Some(<< [boxId |-> None] >>),
          << Out("N", "treeA", 1, None) >>) >>)

NoOutputBoxId ==
  Block("m2", 2, 30,
    << Coinbase2,
       Tx("t3", Some(<< In("M2") >>), None,
          << Out("N", "treeA", 1, None),
             [boxId |-> None, value |-> 1, ergoTree |-> "treeA", assets |-> None] >>) >>)

NoTokenId ==
  Block("m2", 2, 30,
    << Coinbase2,
       Tx("t3", Some(<< In("M2") >>), None,
          << Out("N", "treeA", 1,
                 Some(<< Asset("M2", 3), [tokenId |-> None, amount |-> 1] >>)) >>) >>)

MissingField ==
  { NoHeader, NoBlockTransactions, NoTransactions, NoBlockId, NoHeight, NoTxId,
    NoOutputs, NoInputBoxId, NoDataInputBoxId, NoOutputBoxId, NoTokenId }

BlockDocs == { Block0, Block1, Block2, Fork1, NoHeader, NoOutputs }

(***************************************************************************)
(* Configuration and environment of the SyncService                        *)
(***************************************************************************)
\* --nodes: the configured node URLs; fetches use self.nodes[i % num_nodes].
NodeUrls == << "node0", "node1" >>
NumNodes == Len(NodeUrls)
Nodes == 0..(NumNodes - 1)

\* --sync-batch-size as configured for the model, and the greatest values of
\* SYNC_CONCURRENT_FETCHES and SYNC_CHECKPOINT_INTERVAL the environment may hold
\* (the defaults are 50, 20 and 10).
BatchSize == 2
MaxConcurrentFetches == 2
CheckpointInterval == 2

\* for attempt in 0..3
MaxAttempts == 3

\* sync_once calls the run loop makes in the model.
MaxRounds == 2

Block3 ==
  Block("b3", 3, 40,
    << Tx("c3", Some(<<>>), None, << Out("M3", "treeB", 1, None) >>) >>)

\* The main chain a node serves, by height, and the heights a node may report.
Chain == << Block0, Block1, Block2, Block3 >>
TipHeight == Len(Chain) - 1

\* What a node may answer for the block at a height: the main-chain block, at
\* height 1 also the fork block, and at odd heights a document without a header.
NodeDocs(height) ==
  {Chain[height + 1]} \cup (IF height = 1 THEN {Fork1} ELSE {})
                     \cup (IF height % 2 = 1 THEN {NoHeader} ELSE {})

(***************************************************************************)
(* State                                                                   *)
(***************************************************************************)
VARIABLES
  db,           \* the store's tables
  processor,    \* the BlockProcessor's counters
  last,         \* the last operation: its kind, input, result and the state before it
  committed,    \* the documents whose process_block returned Ok
  epoch_start,  \* the tables' lengths when the current BlockProcessor was constructed
  calls,        \* process_block calls made
  restarts,     \* process restarts made
  \* SyncService
  pc,               \* where the run loop is: sleep, batch, fetch, apply
  rounds,           \* sync_once calls started
  is_syncing, local_height, node_height, blocks_synced, sync_start_time,
  last_error, node_statuses,
  best_node_idx,    \* the index the most recent successful find_best_node returned
  \* sync_once's locals
  start_height, end_height, current_height, batch_end, batch_count,
  checkpoint_interval,  \* SYNC_CHECKPOINT_INTERVAL as read by the running sync_once
  \* fetch_blocks_parallel's locals
  tasks,            \* per height of the batch: state, attempt, node index
  permits,          \* the semaphore's free permits
  fetch_limit,      \* max_concurrent_fetches() as read by the running fetch
  results,          \* the stream's results in completion order
  blocks,           \* the sorted blocks still to be applied (with their height)
  \* history
  applied_log,      \* [height, batch] of each block handed to process_block
  checkpoints,      \* the batch_count at each Store.checkpoint() call
  returned,         \* how the most recent sync_once returned ("none" before the first)
  \* Database::migrate
  migrations,       \* the rows of _migrations, in insertion order
  schema_log,       \* the index of each migration whose SQL was executed, in order
  migrate_calls,    \* migrate() calls made
  migrated,         \* the last migrate() call: its result and the table before it
  \* the codec functions
  arg,              \* the input handed to the functions
  fn,               \* the function called last ("none" before the first call)
  ret,              \* the Option<String> it returned, None when it returns another type
  encoded,          \* the String base58_encode returned
  vlq_ret,          \* the Option<(usize, usize)> decode_vlq returned
  int_ret,          \* the Option<i32> decode_sigma_int returned
  valid,            \* the bool validate_address returned
  \* the Store's connection as the sync loop and the API handlers share it
  processor_guard,  \* the MutexGuard of self.processor is held (sync_once, line 190)
  queue,            \* the blocks the apply loop has still to hand to process_block
  txn,              \* the open transaction: its block, rows, statements run, state
  observed          \* the tables the most recent read query ran on

pvars == << db, processor, last, committed, epoch_start, calls, restarts >>

svars == << pc, rounds, is_syncing, local_height, node_height, blocks_synced,
            sync_start_time, last_error, node_statuses, best_node_idx, start_height,
            end_height,
            current_height, batch_end, batch_count, tasks, permits, fetch_limit,
            results,
            blocks, applied_log, checkpoints, returned , checkpoint_interval >>

mvars == << migrations, schema_log, migrate_calls, migrated >>

cvars == << arg, fn, ret, encoded, vlq_ret, int_ret, valid >>

rvars == << processor_guard, queue, txn, observed >>

\* What the processor and the sync service never touch.
uvars == << mvars, cvars, rvars >>

vars == << pvars, svars, uvars >>

MaxCalls == 4
MaxRestarts == 1

TableNames == DOMAIN EmptyDb

NoCall ==
  [ kind |-> "none", block |-> NoHeader, err |-> FALSE, stage |-> "none",
    self_before |-> NewCounters, db_before |-> EmptyDb, dirty |-> EmptyDb,
    reapplied |-> FALSE ]

(***************************************************************************)
(* Database::migrate                                                       *)
(***************************************************************************)
\* MIGRATIONS: the names, in list order; enumerate() numbers them from 0.
MIGRATIONS ==
  << "001_initial_schema", "002_add_token_holders", "003_add_epochs",
     "004_full_text_search" >>

\* migrate() calls made in the model.
MaxMigrateCalls == 3

\* Where a call may fail: nowhere (None), or for one migration at its
\* execute_batch(sql) or at its INSERT INTO _migrations.
MigrateFaults ==
  {None} \cup {Some([id |-> id, at |-> at]) :
                 id \in 0..(Len(MIGRATIONS) - 1), at \in {"execute_batch", "insert"}}

\* SELECT id FROM _migrations WHERE id = ?
Recorded(table, id) == \E k \in 1..Len(table) : table[k].id = id

\* A mutant of the loop: the migration's SQL is run but the row is not inserted.
RECURSIVE MigrateLoopUnrecorded(_, _, _, _)
MigrateLoopUnrecorded(id, table, log, fault) ==
  IF id >= Len(MIGRATIONS) THEN [table |-> table, log |-> log, err |-> FALSE]
  ELSE IF Recorded(table, id) THEN MigrateLoopUnrecorded(id + 1, table, log, fault)
  ELSE IF fault = Some([id |-> id, at |-> "execute_batch"])
  THEN [table |-> table, log |-> log, err |-> TRUE]
  ELSE IF fault = Some([id |-> id, at |-> "insert"])
  THEN [table |-> table, log |-> Append(log, id), err |-> TRUE]
  ELSE MigrateLoopUnrecorded(id + 1, table, Append(log, id), fault)

\* for (id, (name, sql)) in MIGRATIONS.iter().enumerate(): skip a recorded id;
\* otherwise run the SQL, then record (id, name).  Either statement may fail,
\* and `?` returns the error with what was done so far left in place.
RECURSIVE MigrateLoop(_, _, _, _)
MigrateLoop(id, table, log, fault) ==
  IF id >= Len(MIGRATIONS) THEN [table |-> table, log |-> log, err |-> FALSE]
  ELSE IF Recorded(table, id) THEN MigrateLoop(id + 1, table, log, fault)
  ELSE IF fault = Some([id |-> id, at |-> "execute_batch"])
  THEN [table |-> table, log |-> log, err |-> TRUE]
  ELSE IF fault = Some([id |-> id, at |-> "insert"])
  THEN [table |-> table, log |-> Append(log, id), err |-> TRUE]
  ELSE MigrateLoop(id + 1,
                   Append(table, [id |-> id, name |-> MIGRATIONS[id + 1]]),
                   Append(log, id), fault)

\* A database file that Database::new has just created: no migration recorded.
NotMigrated ==
  /\ migrations = <<>>
  /\ schema_log = <<>>
  /\ migrate_calls = 0
  /\ migrated = [ok |-> FALSE, before |-> <<>>, ran |-> <<>>]

\* main: db.migrate()? has returned Ok on the fresh file.
MigratedOnce ==
  LET r == MigrateLoop(0, <<>>, <<>>, None)
  IN /\ migrations = r.table
     /\ schema_log = r.log
     /\ migrate_calls = 1
     /\ migrated = [ok |-> TRUE, before |-> <<>>, ran |-> r.log]

\* No codec function has been called.
NoArg == [kind |-> "none", v |-> <<>>]

NoResult ==
  /\ ret = <<>>
  /\ encoded = <<>>
  /\ vlq_ret = <<>>
  /\ int_ret = <<>>
  /\ valid = FALSE

CodecIdle ==
  /\ arg = NoArg
  /\ fn = "none"
  /\ NoResult

\* Database::new and migrate on a fresh file; SyncService::new constructs the
\* BlockProcessor.
\* No apply loop is running and no query has been answered.
StoreIdle ==
  /\ processor_guard = FALSE
  /\ queue = <<>>
  /\ txn = <<>>
  /\ observed = <<>>

PInit ==
  /\ StoreIdle
  /\ db = EmptyDb
  /\ processor = NewCounters
  /\ last = NoCall
  /\ committed = {}
  /\ epoch_start = [t \in TableNames |-> 0]
  /\ calls = 0
  /\ restarts = 0

\* SyncService::new
SInit ==
  /\ pc = "sleep"
  /\ rounds = 0
  /\ is_syncing = FALSE
  /\ local_height = -1
  /\ node_height = 0
  /\ blocks_synced = 0
  /\ sync_start_time = 0
  /\ last_error = None
  /\ node_statuses = [n \in Nodes |-> [connected |-> FALSE, height |-> None]]
  /\ best_node_idx = 0
  /\ start_height = 0
  /\ end_height = 0
  /\ current_height = 0
  /\ batch_end = 0
  /\ batch_count = 0
  /\ checkpoint_interval = 0
  /\ tasks = <<>>
  /\ permits = 0
  /\ fetch_limit = 0
  /\ results = <<>>
  /\ blocks = <<>>
  /\ applied_log = <<>>
  /\ checkpoints = <<>>
  /\ returned = "none"

Init == PInit /\ SInit /\ MigratedOnce /\ CodecIdle

\* processor.process_block(&block): the call's effect on the processor and the store.
DoProcessBlock(block) ==
  LET r == ProcessBlock(processor, db, block)
  IN /\ db' = r.db
     /\ processor' = r.self
     /\ committed' = IF r.err THEN committed ELSE committed \cup {block}
     /\ last' = [ kind |-> "apply", block |-> block, err |-> r.err,
                  stage |-> r.stage, self_before |-> processor,
                  db_before |-> db, dirty |-> r.dirty,
                  reapplied |-> block \in committed ]
     /\ calls' = calls + 1

\* One process_block call on a document a node may serve.
ProcessBlockCall(block) ==
  /\ calls < MaxCalls
  /\ DoProcessBlock(block)
  /\ UNCHANGED << epoch_start, restarts >>
  /\ UNCHANGED << svars, uvars >>

\* The process exits and starts again on the same database file: main builds a
\* new SyncService, whose BlockProcessor::new starts every counter at 0.
Restart ==
  /\ restarts < MaxRestarts
  /\ processor' = NewCounters
  /\ epoch_start' = [t \in TableNames |-> Len(db[t])]
  /\ last' = [NoCall EXCEPT !.kind = "restart", !.self_before = processor,
                            !.db_before = db, !.dirty = db]
  /\ restarts' = restarts + 1
  /\ UNCHANGED << db, committed, calls >>
  /\ UNCHANGED << svars, uvars >>

PNext ==
  \/ \E block \in BlockDocs : ProcessBlockCall(block)
  \/ Restart

\* The processor and the store under any sequence of served documents and restarts.
Spec == Init /\ [][PNext]_vars

\* The same harness fed with the documents that miss a required field, between
\* applications of the first blocks of the chain.
MalformedNext ==
  \E block \in {Block0, Block1} \cup MissingField : ProcessBlockCall(block)

MalformedSpec == Init /\ [][MalformedNext]_vars

(***************************************************************************)
(* The Store's connection shared by the apply loop and the API's queries.  *)
(* Database holds one Connection behind one Mutex (db/mod.rs:24-27), so a  *)
(* statement of any caller runs on the connection's current state, an open *)
(* transaction's uncommitted rows included.                                *)
(***************************************************************************)
\* The statement groups of the closure of process_block, lines 128-271.
FlushSteps == 9

\* A mutant of the closure: the inputs are processed before the boxes are inserted.
FlushStepInputsFirst(r, collected, j) ==
  LET b == collected.block[1]
  IN CASE j = 1 -> InsertBlock(r.db, b)
       [] j = 2 -> InsertTransactions(r, collected.transactions, 1)
       [] j = 3 -> SpendAndInsertInputs(r, collected.inputs, 1)
       [] j = 4 -> InsertBoxes(r, collected.boxes, 1)
       [] j = 5 -> InsertDataInputs(r, collected.data_inputs, 1)
       [] j = 6 -> InsertBoxAssets(r, collected.box_assets, 1)
       [] j = 7 -> InsertTokens(r, collected.tokens, 1)
       [] j = 8 -> UpsertAddresses(r, collected.addresses, 1)
       [] j = 9 -> IF b.height % StatsInterval /= 0 THEN r
                   ELSE UpdateNetworkStats(r.db, b.height, b.timestamp)

\* The j-th statement group of the closure on the result of the groups before it.
FlushStep(r, collected, j) ==
  LET b == collected.block[1]
  IN CASE j = 1 -> InsertBlock(r.db, b)
       [] j = 2 -> InsertTransactions(r, collected.transactions, 1)
       [] j = 3 -> InsertBoxes(r, collected.boxes, 1)
       [] j = 4 -> SpendAndInsertInputs(r, collected.inputs, 1)
       [] j = 5 -> InsertDataInputs(r, collected.data_inputs, 1)
       [] j = 6 -> InsertBoxAssets(r, collected.box_assets, 1)
       [] j = 7 -> InsertTokens(r, collected.tokens, 1)
       [] j = 8 -> UpsertAddresses(r, collected.addresses, 1)
       [] j = 9 -> IF b.height % StatsInterval /= 0 THEN r
                   ELSE UpdateNetworkStats(r.db, b.height, b.timestamp)

\* A block at height 1 whose second transaction spends Q1 and P, the outputs of
\* its first transaction.
Chained1 ==
  Block("s1", 1, 20,
    << Tx("c1s", Some(<<>>), None,
          << Out("P", "treeB", 1, None), Out("Q1", "treeB", 1, None) >>),
       Tx("t1s", Some(<< In("Q1"), In("P") >>), None,
          << Out("Q", "treeA", 2, None) >>) >>)

\* The vectors fetch_blocks_parallel may hand to the apply loop.
ApplyBatches ==
  { << Block0 >>, << Block0, Block1 >>, << Block1 >>, << Block1, Block2 >>,
    << Block2 >>, << Fork1 >>, << Block1, NoOutputs >>, << NoHeader >>,
    << Chained1 >>, << Block0, Chained1 >> }

\* Database::execute_transaction is defined in no source file; from the
\* specification's `transaction(fn)` it runs the closure with exclusive access to
\* the connection: the mutex is held from BEGIN to COMMIT or ROLLBACK.
ConnectionHeld == IsSome(txn)

\* What a statement run now on the connection works on.
Connection == IF IsSome(txn) THEN txn[1].r.db ELSE db

\* let mut processor = self.processor.lock().await;  (sync/mod.rs:190)
LockProcessor(batch) ==
  /\ ~processor_guard
  /\ calls < MaxCalls
  /\ processor_guard' = TRUE
  /\ queue' = batch
  /\ UNCHANGED << pvars, svars, mvars, cvars, txn, observed >>

\* process_block up to execute_transaction: a document that fails to parse or to
\* collect returns its error, which `?` at line 192 passes on, dropping the guard;
\* otherwise the transaction is opened with exclusive access to the connection.
BeginBlock ==
  /\ processor_guard /\ queue /= <<>> /\ ~ConnectionHeld
  /\ calls < MaxCalls
  /\ LET block == Head(queue)
     IN IF HeaderMalformed(block) \/ CollectBlock(processor, block).err
        THEN /\ DoProcessBlock(block)
             /\ queue' = <<>>
             /\ processor_guard' = FALSE
             /\ UNCHANGED << epoch_start, restarts, txn >>
        ELSE /\ txn' = Some([ block |-> block,
                              collected |-> CollectBlock(processor, block).collected,
                              step |-> 0, r |-> Ok(db) ])
             /\ UNCHANGED << pvars, queue, processor_guard >>
  /\ UNCHANGED << svars, mvars, cvars, observed >>

\* The closure's next statement group, on the connection the transaction holds.
FlushNext ==
  /\ IsSome(txn)
  /\ ~txn[1].r.err /\ txn[1].step < FlushSteps
  /\ txn' = Some([ txn[1] EXCEPT
                     !.step = @ + 1,
                     !.r = FlushStep(txn[1].r, txn[1].collected, txn[1].step + 1) ])
  /\ UNCHANGED << pvars, svars, mvars, cvars, processor_guard, queue, observed >>

\* The closure has returned: COMMIT or ROLLBACK, the connection is released and
\* process_block returns; an error leaves sync_once through `?`.
EndTransaction ==
  /\ IsSome(txn)
  /\ txn[1].r.err \/ txn[1].step = FlushSteps
  /\ DoProcessBlock(txn[1].block)
  /\ txn' = None
  /\ IF txn[1].r.err
     THEN queue' = <<>> /\ processor_guard' = FALSE
     ELSE queue' = Tail(queue) /\ UNCHANGED processor_guard
  /\ UNCHANGED << epoch_start, restarts, svars, mvars, cvars, observed >>

\* drop(processor);  (sync/mod.rs:194)
DropProcessor ==
  /\ processor_guard /\ queue = <<>> /\ IsNone(txn)
  /\ processor_guard' = FALSE
  /\ UNCHANGED << pvars, svars, mvars, cvars, queue, txn, observed >>

\* A mutant of the queries: the statement runs on the connection without taking
\* the mutex.
QueryWithoutLock ==
  /\ observed' = Some(Connection)
  /\ UNCHANGED << pvars, svars, mvars, cvars, processor_guard, queue, txn >>

\* Database::query_one / query_all: self.conn.lock() is granted when no
\* transaction holds the connection and is kept until the rows have been read.
Query ==
  /\ ~ConnectionHeld
  /\ observed' = Some(Connection)
  /\ UNCHANGED << pvars, svars, mvars, cvars, processor_guard, queue, txn >>

StoreNext ==
  \/ \E batch \in ApplyBatches : LockProcessor(batch)
  \/ BeginBlock
  \/ FlushNext
  \/ EndTransaction
  \/ DropProcessor
  \/ Query

StoreSpec == Init /\ [][StoreNext]_vars

(***************************************************************************)
(* SyncService                                                             *)
(***************************************************************************)
\* What a node's info probe may yield: an error (None) or its full_height
\* (a missing fullHeight is read as 0).
InfoAnswers == {None} \cup {Some(h) : h \in 0..TipHeight}

\* A mutant of find_best_node: the first node that reports a height above 0 is kept.
RECURSIVE ProbeNodesFirstFound(_, _, _, _, _)
ProbeNodesFirstFound(idx, best_idx, best_height, statuses, infos) ==
  IF idx >= NumNodes
  THEN [ best_idx |-> best_idx, best_height |-> best_height, statuses |-> statuses,
         err |-> best_height = 0 ]
  ELSE IF IsSome(infos[idx])
  THEN LET height == infos[idx][1]
           st == [statuses EXCEPT ![idx] = [connected |-> TRUE, height |-> Some(height)]]
       IN IF best_height = 0
          THEN ProbeNodesFirstFound(idx + 1, idx, height, st, infos)
          ELSE ProbeNodesFirstFound(idx + 1, best_idx, best_height, st, infos)
  ELSE ProbeNodesFirstFound(idx + 1, best_idx, best_height,
                  [statuses EXCEPT ![idx] = [connected |-> FALSE, height |-> None]],
                  infos)

\* find_best_node: probe every node in order, rewrite its status, keep the first
\* node with the greatest height above 0.
RECURSIVE ProbeNodes(_, _, _, _, _)
ProbeNodes(idx, best_idx, best_height, statuses, infos) ==
  IF idx >= NumNodes
  THEN [ best_idx |-> best_idx, best_height |-> best_height, statuses |-> statuses,
         err |-> best_height = 0 ]
  ELSE IF IsSome(infos[idx])
  THEN LET height == infos[idx][1]
           st == [statuses EXCEPT ![idx] = [connected |-> TRUE, height |-> Some(height)]]
       IN IF height > best_height
          THEN ProbeNodes(idx + 1, idx, height, st, infos)
          ELSE ProbeNodes(idx + 1, best_idx, best_height, st, infos)
  ELSE ProbeNodes(idx + 1, best_idx, best_height,
                  [statuses EXCEPT ![idx] = [connected |-> FALSE, height |-> None]],
                  infos)

FindBestNode(statuses, infos) == ProbeNodes(0, 0, 0, statuses, infos)

\* Database::get_sync_height: SELECT MAX(height) FROM blocks.
MaxHeight(d) ==
  CHOOSE m \in {d.blocks[i].height : i \in 1..Len(d.blocks)} :
    \A i \in 1..Len(d.blocks) : d.blocks[i].height <= m

\* The outcomes of get_sync_height: Some(height), or None for an error.  Over an
\* empty table MAX yields one row holding NULL; the driver either reports no
\* value (the unwrap_or(-1) branch) or fails to read NULL as an i64.
GetSyncHeight(d) ==
  IF Len(d.blocks) = 0 THEN {Some(-1), None} ELSE {Some(MaxHeight(d))}

Min(a, b) == IF a <= b THEN a ELSE b

\* run: an Err of sync_once is stored in last_error; then the loop sleeps.
ReturnErr(message) ==
  /\ last_error' = Some(message)
  /\ returned' = message
  /\ pc' = "sleep"

\* sync_once returns Ok(()): run records nothing.
ReturnOk(via) ==
  /\ returned' = via
  /\ pc' = "sleep"
  /\ UNCHANGED last_error

fetch_locals == << tasks, permits, fetch_limit, results, blocks >>
loop_locals == << start_height, end_height, current_height, batch_end, batch_count,
                 checkpoint_interval >>
status_atomics == << is_syncing, local_height, node_height, blocks_synced, sync_start_time >>

\* sync_once, lines 134: no probe reported a height above 0.
SyncOnceNoNodes ==
  /\ pc = "sleep" /\ rounds < MaxRounds
  /\ \E infos \in [Nodes -> InfoAnswers] :
       LET f == FindBestNode(node_statuses, infos)
       IN /\ f.err
          /\ node_statuses' = f.statuses
  /\ UNCHANGED best_node_idx
  /\ rounds' = rounds + 1
  /\ ReturnErr("No nodes available")
  /\ applied_log' = <<>> /\ checkpoints' = <<>>
  /\ UNCHANGED << uvars, pvars, status_atomics, loop_locals, fetch_locals >>

\* sync_once, line 139: get_sync_height()? fails.
SyncOnceStoreError ==
  /\ pc = "sleep" /\ rounds < MaxRounds
  /\ \E infos \in [Nodes -> InfoAnswers] :
       LET f == FindBestNode(node_statuses, infos)
       IN /\ ~f.err
          /\ None \in GetSyncHeight(db)
          /\ node_statuses' = f.statuses
          /\ best_node_idx' = f.best_idx
          /\ node_height' = f.best_height
  /\ rounds' = rounds + 1
  /\ ReturnErr("store")
  /\ applied_log' = <<>> /\ checkpoints' = <<>>
  /\ UNCHANGED << uvars, pvars, is_syncing, local_height, blocks_synced, sync_start_time,
                  loop_locals, fetch_locals >>

\* A mutant of the early return: the sync counters are reset before returning.
SyncOnceUpToDateResetting ==
  /\ pc = "sleep" /\ rounds < MaxRounds
  /\ \E infos \in [Nodes -> InfoAnswers] : \E local \in GetSyncHeight(db) :
       LET f == FindBestNode(node_statuses, infos)
       IN /\ ~f.err
          /\ IsSome(local)
          /\ local[1] >= f.best_height
          /\ node_statuses' = f.statuses
          /\ best_node_idx' = f.best_idx
          /\ node_height' = f.best_height
          /\ local_height' = local[1]
  /\ rounds' = rounds + 1
  /\ ReturnOk("uptodate")
  /\ is_syncing' = FALSE
  /\ blocks_synced' = 0
  /\ applied_log' = <<>> /\ checkpoints' = <<>>
  /\ UNCHANGED << uvars, pvars, sync_start_time, loop_locals, fetch_locals >>

\* sync_once, lines 134-145: the store is already at the best node's height.
SyncOnceUpToDate ==
  /\ pc = "sleep" /\ rounds < MaxRounds
  /\ \E infos \in [Nodes -> InfoAnswers] : \E local \in GetSyncHeight(db) :
       LET f == FindBestNode(node_statuses, infos)
       IN /\ ~f.err
          /\ IsSome(local)
          /\ local[1] >= f.best_height
          /\ node_statuses' = f.statuses
          /\ best_node_idx' = f.best_idx
          /\ node_height' = f.best_height
          /\ local_height' = local[1]
  /\ rounds' = rounds + 1
  /\ ReturnOk("uptodate")
  /\ applied_log' = <<>> /\ checkpoints' = <<>>
  /\ UNCHANGED << uvars, pvars, is_syncing, blocks_synced, sync_start_time,
                  loop_locals, fetch_locals >>

\* sync_once, lines 134-178: there is a gap; publish the start of a sync.
SyncOnceBegin ==
  /\ pc = "sleep" /\ rounds < MaxRounds
  /\ \E infos \in [Nodes -> InfoAnswers] : \E local \in GetSyncHeight(db) :
       LET f == FindBestNode(node_statuses, infos)
       IN /\ ~f.err
          /\ IsSome(local)
          /\ local[1] < f.best_height
          /\ node_statuses' = f.statuses
          /\ best_node_idx' = f.best_idx
          /\ node_height' = f.best_height
          /\ local_height' = local[1]
          /\ start_height' = local[1] + 1
          /\ current_height' = local[1] + 1
          /\ end_height' = f.best_height
  /\ rounds' = rounds + 1
  /\ is_syncing' = TRUE
  /\ sync_start_time' = rounds + 1
  /\ blocks_synced' = 0
  /\ last_error' = None
  /\ batch_count' = 0
  /\ \E interval \in 1..CheckpointInterval : checkpoint_interval' = interval
  /\ applied_log' = <<>>
  /\ checkpoints' = <<>>
  /\ pc' = "batch"
  /\ UNCHANGED << uvars, pvars, returned, batch_end, fetch_locals >>

\* fetch_blocks_parallel, lines 290-334: one lazy task per height of the batch,
\* task i bound to node i % num_nodes, and a semaphore of the configured size.
NewTasks(first, end) ==
  [i \in 1..(end - first + 1) |->
     [ height |-> first + i - 1, node |-> (i - 1) % NumNodes,
       state |-> "queued", attempt |-> 0, slept |-> <<>> ]]

\* while current_height <= end_height { batch_end = min(..); fetch_blocks_parallel(..)
\* The call reads SYNC_CONCURRENT_FETCHES from the environment (any positive
\* value up to the model's bound) for the semaphore and for buffer_unordered.
StartBatch ==
  /\ pc = "batch"
  /\ current_height <= end_height
  /\ LET be == Min(current_height + BatchSize - 1, end_height)
     IN /\ batch_end' = be
        /\ tasks' = NewTasks(current_height, be)
  /\ \E limit \in 1..MaxConcurrentFetches :
       /\ fetch_limit' = limit
       /\ permits' = limit
  /\ results' = <<>>
  /\ blocks' = <<>>
  /\ pc' = "fetch"
  /\ UNCHANGED << uvars, pvars, returned, rounds, status_atomics, last_error,
                  node_statuses, best_node_idx,
                  start_height, end_height, current_height, batch_count,
                  checkpoint_interval, applied_log, checkpoints >>

Running == {i \in 1..Len(tasks) : tasks[i].state = "running"}
Queued == {i \in 1..Len(tasks) : tasks[i].state = "queued"}

\* A mutant of the task start: neither buffer_unordered nor the semaphore limits it.
TaskStartUnlimited(i) ==
  /\ pc = "fetch"
  /\ i \in Queued /\ \A j \in Queued : i <= j
  /\ permits' = permits - 1
  /\ UNCHANGED fetch_limit
  /\ tasks' = [tasks EXCEPT ![i].state = "running"]
  /\ UNCHANGED << uvars, pvars, returned, pc, rounds, status_atomics, last_error,
                  node_statuses, best_node_idx,
                  loop_locals, results, blocks, applied_log, checkpoints >>

\* buffer_unordered(n) polls the next task of the iterator while fewer than n are
\* in flight; the task's first step is sem.acquire().
TaskStart(i) ==
  /\ pc = "fetch"
  /\ i \in Queued /\ \A j \in Queued : i <= j
  /\ Cardinality(Running) < fetch_limit
  /\ permits > 0
  /\ permits' = permits - 1
  /\ UNCHANGED fetch_limit
  /\ tasks' = [tasks EXCEPT ![i].state = "running"]
  /\ UNCHANGED << uvars, pvars, returned, pc, rounds, status_atomics, last_error,
                  node_statuses, best_node_idx,
                  loop_locals, results, blocks, applied_log, checkpoints >>

\* One attempt succeeds: get_block_ids_at_height and get_block answered; the task
\* returns Ok((height, block)), its permit, its attempt counter and the record of
\* its sleeps are dropped, the stream yields the result.
AttemptOk(i, block) ==
  /\ pc = "fetch"
  /\ i \in Running
  /\ tasks' = [tasks EXCEPT ![i].state = "done", ![i].attempt = 0, ![i].slept = <<>>]
  /\ permits' = permits + 1
  /\ UNCHANGED fetch_limit
  /\ results' = Append(results, [height |-> tasks[i].height, ok |-> TRUE, block |-> block])
  /\ UNCHANGED << uvars, pvars, returned, pc, rounds, status_atomics, last_error,
                  node_statuses, best_node_idx,
                  loop_locals, blocks, applied_log, checkpoints >>

\* A mutant of the backoff: the shift is one too far.
BackoffMsShiftedOne(attempt) == 500 * (2 ^ (attempt + 1))

\* Duration::from_millis(500 * (1 << attempt)), in milliseconds.
BackoffMs(attempt) == 500 * (2 ^ attempt)

\* A mutant of a failed attempt: the node that failed is marked disconnected.
AttemptFailMarkingNode(i) ==
  /\ pc = "fetch"
  /\ i \in Running
  /\ UNCHANGED fetch_limit
  /\ IF tasks[i].attempt + 1 < MaxAttempts
     THEN /\ tasks' = [tasks EXCEPT ![i].attempt = @ + 1,
                                    ![i].slept = Append(@, BackoffMs(tasks[i].attempt + 1))]
          /\ UNCHANGED << permits, results >>
     ELSE /\ tasks' = [tasks EXCEPT ![i].attempt = @ + 1, ![i].state = "done"]
          /\ permits' = permits + 1
          /\ results' = Append(results,
                [height |-> tasks[i].height, ok |-> FALSE, block |-> NoHeader])
  /\ node_statuses' = [node_statuses EXCEPT ![tasks[i].node] =
                         [connected |-> FALSE, height |-> None]]
  /\ UNCHANGED << uvars, pvars, returned, pc, rounds, status_atomics, last_error,
                  best_node_idx,
                  loop_locals, blocks, applied_log, checkpoints >>

\* One attempt fails (an empty id list, a failed lookup or a failed download):
\* the loop continues into the next attempt, which first sleeps; after the last
\* attempt the task returns the error.  slept lists the task's sleeps in ms.
AttemptFail(i) ==
  /\ pc = "fetch"
  /\ i \in Running
  /\ UNCHANGED fetch_limit
  /\ IF tasks[i].attempt + 1 < MaxAttempts
     THEN /\ tasks' = [tasks EXCEPT ![i].attempt = @ + 1,
                                    ![i].slept = Append(@, BackoffMs(tasks[i].attempt + 1))]
          /\ UNCHANGED << permits, results >>
     ELSE /\ tasks' = [tasks EXCEPT ![i].attempt = @ + 1, ![i].state = "done"]
          /\ permits' = permits + 1
          /\ results' = Append(results,
                [height |-> tasks[i].height, ok |-> FALSE, block |-> NoHeader])
  /\ UNCHANGED << uvars, pvars, returned, pc, rounds, status_atomics, last_error,
                  node_statuses, best_node_idx,
                  loop_locals, blocks, applied_log, checkpoints >>

\* A mutant of the sort: the blocks stay in completion order.
SortByHeightNoSort(rs) == rs

\* blocks.sort_by_key(|(h, _)| *h): a stable sort by height.
SortByHeight(rs) ==
  LET RECURSIVE Insert(_, _)
      Insert(sorted, r) ==
        IF sorted = <<>> THEN << r >>
        ELSE IF sorted[Len(sorted)].height <= r.height THEN Append(sorted, r)
        ELSE Append(Insert(SubSeq(sorted, 1, Len(sorted) - 1), r), sorted[Len(sorted)])
      RECURSIVE Sort(_, _)
      Sort(sorted, i) ==
        IF i > Len(rs) THEN sorted ELSE Sort(Insert(sorted, rs[i]), i + 1)
  IN Sort(<<>>, 1)

AllDone == \A i \in 1..Len(tasks) : tasks[i].state = "done"

\* Lines 344-353: the first Err among the collected results is returned.
FetchFailed ==
  /\ pc = "fetch" /\ AllDone
  /\ \E k \in 1..Len(results) : ~results[k].ok
  /\ ReturnErr("fetch")
  /\ tasks' = <<>> /\ permits' = 0 /\ fetch_limit' = 0 /\ results' = <<>>
  /\ UNCHANGED << uvars, pvars, rounds, status_atomics, node_statuses, best_node_idx, loop_locals,
                  blocks, applied_log, checkpoints >>

\* A mutant of the collection loop: failed fetches are skipped, not returned.
FetchCollectedSkippingErrors ==
  /\ pc = "fetch" /\ AllDone
  /\ blocks' = SortByHeight(SelectSeq(results, LAMBDA r : r.ok))
  /\ tasks' = <<>> /\ permits' = 0 /\ fetch_limit' = 0
  /\ pc' = "apply"
  /\ UNCHANGED << uvars, pvars, returned, rounds, status_atomics, last_error,
                  node_statuses, best_node_idx,
                  loop_locals, results, applied_log, checkpoints >>

\* Lines 344-356: every fetch succeeded; sort by height.
FetchCollected ==
  /\ pc = "fetch" /\ AllDone
  /\ \A k \in 1..Len(results) : results[k].ok
  /\ blocks' = SortByHeight(results)
  /\ tasks' = <<>> /\ permits' = 0 /\ fetch_limit' = 0
  /\ pc' = "apply"
  /\ UNCHANGED << uvars, pvars, returned, rounds, status_atomics, last_error,
                  node_statuses, best_node_idx,
                  loop_locals, results, applied_log, checkpoints >>

\* for block in blocks { processor.process_block(&block)?; }
ApplyNext ==
  /\ pc = "apply"
  /\ Len(blocks) > 0
  /\ DoProcessBlock(blocks[1].block)
  /\ applied_log' = Append(applied_log,
        [height |-> blocks[1].height, batch |-> batch_count + 1])
  /\ IF ProcessBlock(processor, db, blocks[1].block).err
     THEN /\ ReturnErr("apply")
          /\ blocks' = <<>> /\ results' = <<>>
     ELSE /\ blocks' = Tail(blocks)
          /\ UNCHANGED << pc, last_error, results, returned >>
  /\ UNCHANGED << uvars, epoch_start, restarts, rounds, status_atomics, node_statuses,
                  best_node_idx,
                  loop_locals, tasks, permits, fetch_limit, checkpoints >>

\* Database::checkpoint(): flushes the engine's buffers to durable storage.  It
\* returns Ok (TRUE) or Err (FALSE) and leaves the tables as they are.
CheckpointOutcomes == BOOLEAN

\* A mutant of the end of a batch: the store is checkpointed after every batch.
EndBatchAlwaysCheckpoint ==
  /\ pc = "apply"
  /\ Len(blocks) = 0
  /\ batch_count' = batch_count + 1
  /\ \E ok \in CheckpointOutcomes :
       checkpoints' = Append(checkpoints, [batch |-> batch_count + 1, ok |-> ok])
  /\ blocks_synced' = blocks_synced + (batch_end - current_height + 1)
  /\ local_height' = batch_end
  /\ current_height' = batch_end + 1
  /\ results' = <<>>
  /\ pc' = "batch"
  /\ UNCHANGED << uvars, pvars, returned, rounds, is_syncing, node_height, sync_start_time,
                  last_error, node_statuses, best_node_idx, start_height, end_height,
                  batch_end, checkpoint_interval, tasks, permits, fetch_limit, blocks,
                  applied_log >>

\* A mutant of the end of a batch: a failed checkpoint is returned with `?`.
EndBatchCheckpointFatal ==
  /\ pc = "apply"
  /\ Len(blocks) = 0
  /\ batch_count' = batch_count + 1
  /\ (batch_count + 1) % checkpoint_interval = 0
  /\ checkpoints' = Append(checkpoints, [batch |-> batch_count + 1, ok |-> FALSE])
  /\ ReturnErr("checkpoint")
  /\ results' = <<>>
  /\ UNCHANGED << uvars, pvars, rounds, status_atomics, node_statuses, best_node_idx,
                  start_height, end_height, current_height, batch_end,
                  checkpoint_interval, tasks, permits, fetch_limit, blocks,
                  applied_log >>

\* A mutant of the end of a batch: the configured batch size is added, not the
\* size of this batch.
EndBatchConfiguredSize ==
  /\ pc = "apply"
  /\ Len(blocks) = 0
  /\ batch_count' = batch_count + 1
  /\ IF (batch_count + 1) % checkpoint_interval = 0
     THEN \E ok \in CheckpointOutcomes :
            checkpoints' = Append(checkpoints, [batch |-> batch_count + 1, ok |-> ok])
     ELSE UNCHANGED checkpoints
  /\ blocks_synced' = blocks_synced + BatchSize
  /\ local_height' = batch_end
  /\ current_height' = batch_end + 1
  /\ results' = <<>>
  /\ pc' = "batch"
  /\ UNCHANGED << uvars, pvars, returned, rounds, is_syncing, node_height, sync_start_time,
                  last_error, node_statuses, best_node_idx, start_height, end_height,
                  batch_end, checkpoint_interval, tasks, permits, fetch_limit, blocks,
                  applied_log >>

\* Lines 196-216: count the batch, checkpoint every checkpoint_interval batches
\* (a failure is only logged), publish the progress, move to the next window.
EndBatch ==
  /\ pc = "apply"
  /\ Len(blocks) = 0
  /\ batch_count' = batch_count + 1
  /\ IF (batch_count + 1) % checkpoint_interval = 0
     THEN \E ok \in CheckpointOutcomes :
            checkpoints' = Append(checkpoints, [batch |-> batch_count + 1, ok |-> ok])
     ELSE UNCHANGED checkpoints
  /\ blocks_synced' = blocks_synced + (batch_end - current_height + 1)
  /\ local_height' = batch_end
  /\ current_height' = batch_end + 1
  /\ results' = <<>>
  /\ pc' = "batch"
  /\ UNCHANGED << uvars, pvars, returned, rounds, is_syncing, node_height, sync_start_time,
                  last_error, node_statuses, best_node_idx, start_height, end_height,
                  batch_end, checkpoint_interval, tasks, permits, fetch_limit, blocks,
                  applied_log >>

\* Lines 219-227: the loop is over; final checkpoint, is_syncing = false, Ok.
FinishSync ==
  /\ pc = "batch"
  /\ current_height > end_height
  /\ \E ok \in CheckpointOutcomes :
       checkpoints' = Append(checkpoints, [batch |-> batch_count, ok |-> ok])
  /\ is_syncing' = FALSE
  /\ ReturnOk("synced")
  /\ UNCHANGED << uvars, pvars, rounds, local_height, node_height, blocks_synced,
                  sync_start_time, node_statuses, best_node_idx, loop_locals, fetch_locals,
                  applied_log >>

SNext ==
  \/ SyncOnceNoNodes
  \/ SyncOnceStoreError
  \/ SyncOnceUpToDate
  \/ SyncOnceBegin
  \/ StartBatch
  \/ \E i \in 1..Len(tasks) : TaskStart(i)
  \/ \E i \in 1..Len(tasks) : \E block \in NodeDocs(tasks[i].height) : AttemptOk(i, block)
  \/ \E i \in 1..Len(tasks) : AttemptFail(i)
  \/ FetchFailed
  \/ FetchCollected
  \/ ApplyNext
  \/ EndBatch
  \/ FinishSync

\* The run loop of one process on a fresh database.
SyncSpec == Init /\ [][SNext]_vars

\* run, lines 122-129: `loop { .. sleep(interval).await; }` has no exit and no
\* bound; the model's count of sync_once calls starts over.
RunAgain ==
  /\ pc = "sleep" /\ rounds = MaxRounds
  /\ rounds' = 0
  /\ UNCHANGED << uvars, pvars, pc, returned, status_atomics, last_error, node_statuses,
                  best_node_idx, loop_locals, fetch_locals, applied_log, checkpoints >>

\* The task's attempt is not its last one.
CanRetry(i) == tasks[i].attempt + 1 < MaxAttempts

\* The run loop without end among nodes that serve the chain: the best node
\* reports the tip, every height is fetched within its attempts and only the
\* chain's blocks are served.  The steps outside process_block:
ProbeAndFetch ==
  \/ SyncOnceStoreError /\ node_height' = TipHeight
  \/ SyncOnceUpToDate /\ node_height' = TipHeight
  \/ SyncOnceBegin /\ node_height' = TipHeight
  \/ StartBatch
  \/ \E i \in 1..Len(tasks) : TaskStart(i)
  \/ \E i \in 1..Len(tasks) : AttemptOk(i, Chain[tasks[i].height + 1])
  \/ \E i \in 1..Len(tasks) : CanRetry(i) /\ AttemptFail(i)
  \/ FetchCollected
  \/ EndBatch
  \/ FinishSync
  \/ RunAgain

LiveNext == ProbeAndFetch \/ ApplyNext

\* ApplyNext can be taken exactly here, and always changes calls.
ApplyEnabled == pc = "apply" /\ Len(blocks) > 0

\* The runtime keeps polling the spawned task (main.rs:115-117) and the futures of
\* the fetch stream, and the apply loop runs without awaiting: a step that stays
\* possible is eventually taken.  The second conjunct is WF_vars(ApplyNext) with
\* the step's enabling condition written out.
Fairness ==
  /\ WF_vars(ProbeAndFetch)
  /\ []<>(~ApplyEnabled) \/ []<><<ApplyNext>>_vars

LiveSpec == Init /\ [][LiveNext]_vars /\ Fairness

(***************************************************************************)
(* Startup: migrate() on the database file                                 *)
(***************************************************************************)
\* One migrate() call, as main makes at every start of the process.
Migrate(fault) ==
  /\ migrate_calls < MaxMigrateCalls
  /\ LET r == MigrateLoop(0, migrations, schema_log, fault)
     IN /\ migrations' = r.table
        /\ schema_log' = r.log
        /\ migrated' = [ ok |-> ~r.err, before |-> migrations,
                         ran |-> SubSeq(r.log, Len(schema_log) + 1, Len(r.log)) ]
  /\ migrate_calls' = migrate_calls + 1
  /\ UNCHANGED << pvars, svars, cvars, rvars >>

MNext == \E fault \in MigrateFaults : Migrate(fault)

MInit == PInit /\ SInit /\ NotMigrated /\ CodecIdle

\* The starts of the process on one database file, each of which may fail.
MigrateSpec == MInit /\ [][MNext]_vars

(***************************************************************************)
(* Codec (src/src/utils/ergo_tree.rs and the register decoders of          *)
(* processor.rs).  A byte string (Vec<u8>, &[u8]) is a sequence over       *)
(* 0..255; a text (&str, String) is the sequence of its Unicode code       *)
(* points, so "9A" is << 57, 65 >>.                                        *)
(***************************************************************************)
\* A loop over the elements lo..hi of q that starts in state st and runs
\* Step(state, element) for each: the states after each element, in order.  The
\* range is split in halves so that the evaluation stays shallow.
RECURSIVE Scan(_, _, _, _, _)
Scan(Step(_, _), st, q, lo, hi) ==
  IF lo > hi THEN <<>>
  ELSE IF lo = hi THEN << Step(st, q[lo]) >>
  ELSE LET mid == (lo + hi) \div 2
           left == Scan(Step, st, q, lo, mid)
       IN left \o Scan(Step, left[Len(left)], q, mid + 1, hi)

\* for element in q { st = Step(st, element) }: the final state.
Fold(Step(_, _), st, q) ==
  IF q = <<>> THEN st ELSE LET states == Scan(Step, st, q, 1, Len(q)) IN states[Len(states)]

\* BASE58_ALPHABET = b"123456789ABCDEFGHJKLMNPQRSTUVWXYZabcdefghijkmnopqrstuvwxyz"
BASE58_ALPHABET ==
  << 49, 50, 51, 52, 53, 54, 55, 56, 57, 65, 66, 67, 68, 69, 70,
     71, 72, 74, 75, 76, 77, 78, 80, 81, 82, 83, 84, 85, 86, 87,
     88, 89, 90, 97, 98, 99, 100, 101, 102, 103, 104, 105, 106, 107, 109,
     110, 111, 112, 113, 114, 115, 116, 117, 118, 119, 120, 121, 122 >>

MAINNET_P2PK_PREFIX == 1
MAINNET_P2S_PREFIX == 3
TESTNET_P2PK_PREFIX == 17
TESTNET_P2S_PREFIX == 19

\* hex::decode: the value of one hex digit, -1 for any other character.
HexVal(c) ==
  IF c \in 48..57 THEN c - 48
  ELSE IF c \in 97..102 THEN c - 87
  ELSE IF c \in 65..70 THEN c - 55
  ELSE -1

\* hex::decode(text).ok(): None for an odd length or a character that is no hex
\* digit, else the bytes, two digits each.
HexDecode(text) ==
  IF Len(text) % 2 /= 0 \/ \E k \in 1..Len(text) : HexVal(text[k]) < 0
  THEN None
  ELSE Some([k \in 1..(Len(text) \div 2) |->
               16 * HexVal(text[2 * k - 1]) + HexVal(text[2 * k])])

\* String::from_utf8(bytes).ok(): the code points of a well-formed UTF-8 byte
\* string (shortest form, no surrogates, at most U+10FFFF), else None.
IsCont(b) == b \in 128..191

RECURSIVE FromUtf8(_, _)
FromUtf8(bytes, acc) ==
  IF bytes = <<>> THEN Some(acc)
  ELSE LET b == bytes[1]
           n == Len(bytes)
       IN IF b < 128 THEN FromUtf8(Tail(bytes), Append(acc, b))
          ELSE IF b \in 194..223
          THEN IF n >= 2 /\ IsCont(bytes[2])
               THEN FromUtf8(SubSeq(bytes, 3, n),
                             Append(acc, (b - 192) * 64 + (bytes[2] - 128)))
               ELSE None
          ELSE IF b \in 224..239
          THEN IF /\ n >= 3
                  /\ IsCont(bytes[2]) /\ IsCont(bytes[3])
                  /\ (b = 224 => bytes[2] >= 160)
                  /\ (b = 237 => bytes[2] <= 159)
               THEN FromUtf8(SubSeq(bytes, 4, n),
                             Append(acc, (b - 224) * 4096 + (bytes[2] - 128) * 64
                                         + (bytes[3] - 128)))
               ELSE None
          ELSE IF b \in 240..244
          THEN IF /\ n >= 4
                  /\ IsCont(bytes[2]) /\ IsCont(bytes[3]) /\ IsCont(bytes[4])
                  /\ (b = 240 => bytes[2] >= 144)
                  /\ (b = 244 => bytes[2] <= 143)
               THEN FromUtf8(SubSeq(bytes, 5, n),
                             Append(acc, (b - 240) * 262144 + (bytes[2] - 128) * 4096
                                         + (bytes[3] - 128) * 64 + (bytes[4] - 128)))
               ELSE None
          ELSE None

StringFromUtf8(bytes) == FromUtf8(bytes, <<>>)

\* str::len(): the length in bytes of the text's UTF-8 form.
Utf8Len(c) == IF c < 128 THEN 1 ELSE IF c < 2048 THEN 2 ELSE IF c < 65536 THEN 3 ELSE 4

StrLen(text) == Fold(LAMBDA n, c : n + Utf8Len(c), 0, text)

\* blake2b256: the blake2 crate's 32-byte digest.  The digest function itself is
\* not reproduced: a fixed function of every byte and of the length of the
\* input stands for it, so that what is hashed and which digest bytes are kept
\* show in the result.
Mix(acc, byte) == (acc * 31 + byte + 1) % 65521

Blake2b256(data) ==
  LET h == Fold(Mix, Len(data) + 7, data)
  IN [j \in 1..32 |-> (h * (2 * j + 1) + 41 * j + (h \div 256)) % 256]

\* blake2b256_checksum: blake2b256(data)[..4]
Blake2b256Checksum(data) == SubSeq(Blake2b256(data), 1, 4)

\* base58_encode, lines 96-104: the body of `for &byte in &num`, one step of the
\* long division of num by 58.
DivideStep(st, byte) ==
  LET acc == st.remainder * 256 + byte
      quotient == acc \div 58
  IN [ new_num |-> IF st.new_num /= <<>> \/ quotient > 0
                   THEN Append(st.new_num, quotient % 256)
                   ELSE st.new_num,
       remainder |-> acc % 58 ]

DivideBy58(num) == Fold(DivideStep, [new_num |-> <<>>, remainder |-> 0], num)

\* base58_encode, lines 92-108: one pass of the while loop, or nothing once its
\* condition is false.
EncodeStep(st, pass) ==
  IF st.num /= <<>> /\ ~(Len(st.num) = 1 /\ st.num[1] = 0)
  THEN LET d == DivideBy58(st.num)
       IN [ num |-> d.new_num,
            result |-> Append(st.result, BASE58_ALPHABET[d.remainder + 1]) ]
  ELSE st

\* The digits the while loop pushes, least significant first.  A pass takes a
\* factor 58 off the number, so the loop ends within 2 * len passes.
Base58Digits(data) ==
  Fold(EncodeStep, [num |-> data, result |-> <<>>],
       [pass \in 1..(2 * Len(data)) |-> pass]).result

RECURSIVE TakeWhileZero(_)
TakeWhileZero(data) ==
  IF data /= <<>> /\ data[1] = 0 THEN 1 + TakeWhileZero(Tail(data)) ELSE 0

Reverse(q) == [k \in 1..Len(q) |-> q[Len(q) + 1 - k]]

\* base58_encode: the digits, then one '1' per leading zero byte, reversed.
Base58Encode(data) ==
  LET leading_zeros == TakeWhileZero(data)
      result == Base58Digits(data)
  IN Reverse(result \o [k \in 1..leading_zeros |-> 49])

\* encode_p2pk_address
EncodeP2pkAddress(pk, mainnet) ==
  LET prefix == IF mainnet THEN MAINNET_P2PK_PREFIX ELSE TESTNET_P2PK_PREFIX
      content == << prefix >> \o pk
  IN Base58Encode(content \o Blake2b256Checksum(content))

\* encode_p2s_address
EncodeP2sAddress(tree, mainnet) ==
  LET prefix == IF mainnet THEN MAINNET_P2S_PREFIX ELSE TESTNET_P2S_PREFIX
      content == << prefix >> \o tree
  IN Base58Encode(content \o Blake2b256Checksum(content))

\* A mutant of ergo_tree_to_address: the third byte of the P2PK head is not compared.
ErgoTreeToAddressTwoByteHead(ergo_tree) ==
  LET decoded == HexDecode(ergo_tree)
  IN IF IsNone(decoded) THEN None
     ELSE LET bytes == decoded[1]
          IN IF bytes = <<>> THEN None
             ELSE IF Len(bytes) >= 36 /\ bytes[1] = 0 /\ bytes[2] = 8
             THEN Some(EncodeP2pkAddress(SubSeq(bytes, 4, 36), TRUE))
             ELSE Some(EncodeP2sAddress(bytes, TRUE))

\* ergo_tree_to_address
ErgoTreeToAddress(ergo_tree) ==
  LET decoded == HexDecode(ergo_tree)
  IN IF IsNone(decoded) THEN None
     ELSE LET bytes == decoded[1]
          IN IF bytes = <<>> THEN None
             ELSE IF Len(bytes) >= 36 /\ bytes[1] = 0 /\ bytes[2] = 8 /\ bytes[3] = 205
             THEN Some(EncodeP2pkAddress(SubSeq(bytes, 4, 36), TRUE))
             ELSE Some(EncodeP2sAddress(bytes, TRUE))

\* miner_pk_to_address
MinerPkToAddress(miner_pk) ==
  LET decoded == HexDecode(miner_pk)
  IN IF IsNone(decoded) THEN None
     ELSE IF Len(decoded[1]) /= 33 THEN None
     ELSE Some(EncodeP2pkAddress(decoded[1], TRUE))

\* validate_address: address.len() counts bytes, and `c as u8` keeps the low
\* eight bits of the character.
ValidateAddress(address) ==
  IF StrLen(address) < 30 THEN FALSE
  ELSE \A k \in 1..Len(address) :
         \E a \in 1..Len(BASE58_ALPHABET) : BASE58_ALPHABET[a] = address[k] % 256

\* A usize: the value is lo + hi * 2^28 with lo below 2^28 (a 42-bit value
\* does not fit the checker's integers).
Usize(lo, hi) == [lo |-> lo, hi |-> hi]

\* value | (group << shift), for a 7-bit group and a shift that is a multiple of 7.
OrShifted(value, group, shift) ==
  IF shift < 28 THEN Usize(value.lo + group * (2 ^ shift), value.hi)
  ELSE Usize(value.lo, value.hi + group * (2 ^ (shift - 28)))

\* A mutant of decode_vlq: the index of the last byte is returned, not the count.
RECURSIVE VlqLoopReturningIndex(_, _, _, _)
VlqLoopReturningIndex(bytes, i, value, shift) ==
  IF i >= Len(bytes) THEN None
  ELSE LET byte == bytes[i + 1]
           v == OrShifted(value, byte % 128, shift)
       IN IF byte < 128 THEN Some(<< v, i >>)
          ELSE IF shift + 7 > 35 THEN None
          ELSE VlqLoopReturningIndex(bytes, i + 1, v, shift + 7)

\* decode_vlq: value |= (byte & 0x7f) << shift for each byte up to the first one
\* without the high bit; None once shift exceeds 35 or the bytes run out.
RECURSIVE VlqLoop(_, _, _, _)
VlqLoop(bytes, i, value, shift) ==
  IF i >= Len(bytes) THEN None
  ELSE LET byte == bytes[i + 1]
           v == OrShifted(value, byte % 128, shift)
       IN IF byte < 128 THEN Some(<< v, i + 1 >>)
          ELSE IF shift + 7 > 35 THEN None
          ELSE VlqLoop(bytes, i + 1, v, shift + 7)

DecodeVlq(bytes) == VlqLoop(bytes, 0, Usize(0, 0), 0)

\* offset + 1 + len > bytes.len()
ExceedsLen(offset, len, n) == len.hi > 0 \/ offset + 1 + len.lo > n

\* A mutant of decode_sigma_string: the body is taken from bytes[offset..],
\* the tag byte not being counted.
DecodeSigmaStringFromOffset(hex) ==
  LET decoded == HexDecode(hex)
  IN IF IsNone(decoded) THEN None
     ELSE LET bytes == decoded[1]
          IN IF bytes = <<>> THEN None
             ELSE IF bytes[1] = 14
             THEN LET vlq == DecodeVlq(Tail(bytes))
                  IN IF IsNone(vlq) THEN None
                     ELSE LET len == vlq[1][1]
                              offset == vlq[1][2]
                          IN IF ExceedsLen(offset, len, Len(bytes)) THEN None
                             ELSE StringFromUtf8(
                                    SubSeq(bytes, 1 + offset, offset + len.lo))
             ELSE StringFromUtf8(bytes)

\* decode_sigma_string
DecodeSigmaString(hex) ==
  LET decoded == HexDecode(hex)
  IN IF IsNone(decoded) THEN None
     ELSE LET bytes == decoded[1]
          IN IF bytes = <<>> THEN None
             ELSE IF bytes[1] = 14
             THEN LET vlq == DecodeVlq(Tail(bytes))
                  IN IF IsNone(vlq) THEN None
                     ELSE LET len == vlq[1][1]
                              offset == vlq[1][2]
                          IN IF ExceedsLen(offset, len, Len(bytes)) THEN None
                             ELSE StringFromUtf8(
                                    SubSeq(bytes, 2 + offset, 1 + offset + len.lo))
             ELSE StringFromUtf8(bytes)

\* char::is_whitespace, as str::trim uses it.
IsWhitespace(c) ==
  c \in {9, 10, 11, 12, 13, 32, 133, 160, 5760, 8232, 8233, 8239, 8287, 12288}
    \/ c \in 8192..8202

RECURSIVE TrimStart(_)
TrimStart(text) ==
  IF text /= <<>> /\ IsWhitespace(text[1]) THEN TrimStart(Tail(text)) ELSE text

Trim(text) == Reverse(TrimStart(Reverse(TrimStart(text))))

I32Max == 2147483647
I32Min == -2147483647 - 1

\* i32::from_str on the digits after the sign: the value is built digit by
\* digit on the side of its sign, and a step that leaves the i32 range fails.
RECURSIVE ParseDigits(_, _, _)
ParseDigits(digits, acc, negative) ==
  IF digits = <<>> THEN Some(acc)
  ELSE IF digits[1] \notin 48..57 THEN None
  ELSE LET d == digits[1] - 48
       IN IF negative
          THEN IF acc < I32Min \div 10 + 1 \/ acc * 10 < I32Min + d THEN None
               ELSE ParseDigits(Tail(digits), acc * 10 - d, negative)
          ELSE IF acc > I32Max \div 10 \/ acc * 10 > I32Max - d THEN None
               ELSE ParseDigits(Tail(digits), acc * 10 + d, negative)

\* s.parse::<i32>(): an optional sign and at least one digit.
ParseI32(text) ==
  IF text = <<>> THEN None
  ELSE IF text[1] \in {43, 45}
  THEN IF Len(text) = 1 THEN None ELSE ParseDigits(Tail(text), 0, text[1] = 45)
  ELSE ParseDigits(text, 0, FALSE)

\* (value >> 1) as i32: the low 32 bits of the shifted value, read as signed.
ShiftedAsI32(value) ==
  LET low28 == (value.lo \div 2) + (value.hi % 2) * (2 ^ 27)
      top4 == (value.hi \div 2) % 16
  IN IF top4 >= 8 THEN low28 + (top4 - 16) * (2 ^ 28) ELSE low28 + top4 * (2 ^ 28)

\* x ^ -((value & 1) as i32): x itself, or every bit of x flipped.
XorSign(x, value) ==
  IF value.lo % 2 = 0 THEN x ELSE IF x >= 0 THEN (-x) - 1 ELSE -(x + 1)

\* decode_sigma_int
DecodeSigmaInt(hex) ==
  LET decoded == HexDecode(hex)
  IN IF IsNone(decoded) THEN None
     ELSE LET bytes == decoded[1]
          IN IF bytes = <<>> THEN None
             ELSE IF bytes[1] = 14
             THEN LET length == DecodeVlq(Tail(bytes))
                  IN IF IsNone(length) THEN None
                     ELSE LET len == length[1][1]
                              offset == length[1][2]
                          IN IF ExceedsLen(offset, len, Len(bytes)) THEN None
                             ELSE LET str == StringFromUtf8(
                                        SubSeq(bytes, 2 + offset, 1 + offset + len.lo))
                                  IN IF IsNone(str) THEN None ELSE ParseI32(Trim(str[1]))
             ELSE IF bytes[1] \in {4, 5}
             THEN LET zigzag == DecodeVlq(Tail(bytes))
                  IN IF IsNone(zigzag) THEN None
                     ELSE Some(XorSign(ShiftedAsI32(zigzag[1][1]), zigzag[1][1]))
             ELSE LET str == StringFromUtf8(bytes)
                  IN IF IsNone(str) THEN None ELSE ParseI32(Trim(str[1]))

(***************************************************************************)
(* The codec functions on bounded inputs                                   *)
(***************************************************************************)
\* The longest byte string drawn in full, the longest register payload after
\* its tag, and the longest tail of an address text.
MaxBytesLen == 3
MaxRegisterLen == 3
MaxTailLen == 2

SeqsUpTo(S, n) == UNION {[1..k -> S] : k \in 0..n}

Repeat(x, n) == [k \in 1..n |-> x]

\* hex::encode: two lower-case digits per byte.
HexDigit(v) == IF v < 10 THEN 48 + v ELSE 87 + v

HexEncode(bytes) ==
  [k \in 1..(2 * Len(bytes)) |->
     IF k % 2 = 1 THEN HexDigit(bytes[(k + 1) \div 2] \div 16)
     ELSE HexDigit(bytes[k \div 2] % 16)]

\* Byte strings: every string up to MaxBytesLen over bytes at the edges of the
\* encodings, and runs of continuation bytes around the VLQ ceiling.
ByteSamples == {0, 1, 58, 127, 128, 255}

ByteInputs ==
  SeqsUpTo(ByteSamples, MaxBytesLen)
    \cup {Repeat(128, n) \o t : n \in 4..7, t \in {<<>>, << 1 >>, << 127 >>}}

\* Scripts and keys: a 3-byte head and a filling, at the lengths around 33 and 36.
Filling(seed, n) == [k \in 1..n |-> (seed + 37 * k) % 256]

ScriptInputs ==
  {head \o Filling(seed, n) :
     head \in {<< 0, 8, 205 >>, << 0, 8, 204 >>, << 16, 8, 205 >>, << 2, 8, 205 >>},
     seed \in {2, 3},
     n \in {0, 1, 29, 30, 31, 32, 33, 34}}
    \cup SeqsUpTo({0, 8, 205}, 2)

\* Register payloads: the 0x0e tag and every string up to MaxRegisterLen after
\* it, over small lengths, a continuation byte, ASCII and the two bytes of a
\* 2-byte character; and short payloads without the tag.
RegisterSamples == {0, 1, 2, 65, 128, 195, 169}

RegisterInputs ==
  {<< 14 >> \o b : b \in SeqsUpTo(RegisterSamples, MaxRegisterLen)}
    \cup SeqsUpTo({14, 65, 195, 169}, 2)

\* Texts that are no hex: an odd length, or a character outside the hex digits.
NotHexInputs == {<< 48 >>, << 48, 48, 56 >>, << 122, 122 >>, << 48, 103 >>, << 48, 101, 32, 48 >>}

\* Address texts: 27 to 30 times '1', or 30 times 'z', then a tail over
\* characters inside and outside the alphabet ('1', 'z', '0', 'O', 'I', 'l' and
\* the two-byte characters U+0131 and U+00E9).
AddressChars == {49, 122, 48, 79, 73, 108, 305, 233}

AddressInputs ==
  {head \o t : head \in {Repeat(49, n) : n \in 27..30} \cup {Repeat(122, 30)},
               t \in SeqsUpTo(AddressChars, MaxTailLen)}

\* Integer registers: the 0x04 or 0x05 tag and every string up to MaxBytesLen
\* over bytes at the edges of the groups; the values around 2^31 and 2^32 in
\* five groups and values of six groups; and decimal texts with and without
\* the 0x0e tag ("42", "-7", " 9 ", "2147483648", "-2147483648", "+", "A").
IntSamples == {0, 1, 4, 127, 128, 255}

IntInputs ==
  {<< tag >> \o b : tag \in {4, 5}, b \in SeqsUpTo(IntSamples, MaxBytesLen)}
    \cup {<< 4 >> \o Repeat(g, 4) \o t :
            g \in {128, 254, 255}, t \in {<< 7 >>, << 8 >>, << 15 >>, << 16 >>, << 32 >>,
                                          << 128, 1 >>, << 255, 127 >>, << 128, 128, 1 >>}}
    \cup { << 14, 2, 52, 50 >>, << 45, 55 >>, << 32, 57, 32 >>, << 43 >>, << 14, 1, 65 >>,
           << 50, 49, 52, 55, 52, 56, 51, 54, 52, 56 >>,
           << 50, 49, 52, 55, 52, 56, 51, 54, 52, 55 >>,
           << 45, 50, 49, 52, 55, 52, 56, 51, 54, 52, 56 >>,
           << 45, 50, 49, 52, 55, 52, 56, 51, 54, 52, 57 >> }

CodecInputs ==
  {[kind |-> "bytes", v |-> b] : b \in ByteInputs}
    \cup {[kind |-> "text", v |-> HexEncode(b)] :
            b \in ScriptInputs \cup RegisterInputs \cup IntInputs}
    \cup {[kind |-> "text", v |-> t] : t \in NotHexInputs \cup AddressInputs}

\* The one call made on the input: the result goes to the variable of its type.
Call(name, option, text, pair, int, bool) ==
  /\ fn = "none"
  /\ fn' = name
  /\ ret' = option
  /\ encoded' = text
  /\ vlq_ret' = pair
  /\ int_ret' = int
  /\ valid' = bool
  /\ UNCHANGED << arg, pvars, svars, mvars, rvars >>

Base58EncodeCall ==
  arg.kind = "bytes" /\ Call("base58_encode", None, Base58Encode(arg.v), None, None, FALSE)

DecodeVlqCall ==
  arg.kind = "bytes" /\ Call("decode_vlq", None, <<>>, DecodeVlq(arg.v), None, FALSE)

ErgoTreeToAddressCall ==
  arg.kind = "text"
    /\ Call("ergo_tree_to_address", ErgoTreeToAddress(arg.v), <<>>, None, None, FALSE)

MinerPkToAddressCall ==
  arg.kind = "text"
    /\ Call("miner_pk_to_address", MinerPkToAddress(arg.v), <<>>, None, None, FALSE)

ValidateAddressCall ==
  arg.kind = "text"
    /\ Call("validate_address", None, <<>>, None, None, ValidateAddress(arg.v))

DecodeSigmaStringCall ==
  arg.kind = "text"
    /\ Call("decode_sigma_string", DecodeSigmaString(arg.v), <<>>, None, None, FALSE)

DecodeSigmaIntCall ==
  arg.kind = "text"
    /\ Call("decode_sigma_int", None, <<>>, None, DecodeSigmaInt(arg.v), FALSE)

CNext ==
  \/ Base58EncodeCall
  \/ DecodeVlqCall
  \/ ErgoTreeToAddressCall
  \/ MinerPkToAddressCall
  \/ ValidateAddressCall
  \/ DecodeSigmaStringCall
  \/ DecodeSigmaIntCall

CInit ==
  /\ PInit /\ SInit /\ MigratedOnce
  /\ arg \in CodecInputs
  /\ fn = "none"
  /\ NoResult

\* Each codec function applied to each input.
CodecSpec == CInit /\ [][CNext]_vars

(***************************************************************************)
(* Reading documents and tables                                            *)
(***************************************************************************)
DocTxs(block) == block.blockTransactions[1].transactions[1]
DocHeight(block) == block.header[1].height[1]
DocInputs(tx) == IF IsSome(tx.inputs) THEN tx.inputs[1] ELSE <<>>
DocOutputs(tx) == tx.outputs[1]
DocAssets(output) == IF IsSome(output.assets) THEN output.assets[1] ELSE <<>>

Rows(table) == {table[i] : i \in 1..Len(table)}
BoxRow(d, box_id) == CHOOSE b \in Rows(d.boxes) : b.box_id = box_id
Unspent(b) == IsNone(b.spent_tx_id) /\ IsNone(b.spent_index) /\ IsNone(b.spent_height)
Spent(b) == IsSome(b.spent_tx_id) /\ IsSome(b.spent_index) /\ IsSome(b.spent_height)

Applied == last.kind = "apply" /\ ~last.err
Failed == last.kind = "apply" /\ last.err

(***************************************************************************)
(* C2.  A process_block call that fails, while collecting or inside the    *)
(* flush, returns an error and leaves every table of the store as it was   *)
(* before the call; a call that succeeds makes the whole flush visible.    *)
(***************************************************************************)
C2_RollbackOnFailure ==
  /\ Failed => db = last.db_before
  /\ Applied => db = last.dirty
  /\ (last.kind = "apply" /\ last.stage \in {"parse", "collect", "sql"}) => last.err

\* A call failed inside the flush after statements had changed the working state.
C2_Witness ==
  /\ Failed /\ last.stage = "sql"
  /\ last.dirty /= last.db_before
  /\ Len(last.db_before.blocks) > 0

(***************************************************************************)
(* C3.  After a process_block call that returns an error each of the six   *)
(* counters has the value it had before the call.                          *)
(***************************************************************************)
C3_CountersRestoredOnError ==
  Failed => processor = last.self_before

(***************************************************************************)
(* C4.  A BlockProcessor constructed on a non-empty store starts from the  *)
(* persisted maxima, and no global_index or synthetic id is stored twice.  *)
(***************************************************************************)
MaxOver(S) == IF S = {} THEN 0 ELSE CHOOSE m \in S : \A x \in S : x <= m

PersistedMaxima(d) ==
  [ global_tx_index    |-> MaxOver({r.global_index : r \in Rows(d.transactions)}),
    global_box_index   |-> MaxOver({r.global_index : r \in Rows(d.boxes)}),
    global_block_index |-> MaxOver({r.global_index : r \in Rows(d.blocks)}),
    box_asset_id       |-> MaxOver({r.id : r \in Rows(d.box_assets)}),
    input_id           |-> MaxOver({r.id : r \in Rows(d.inputs)}),
    data_input_id      |-> MaxOver({r.id : r \in Rows(d.data_inputs)}) ]

DistinctBy(table, Key(_)) ==
  \A i, j \in 1..Len(table) : i /= j => Key(table[i]) /= Key(table[j])

GlobalIndexOf(r) == r.global_index
IdOf(r) == r.id

C4_CountersPrimedFromStore ==
  /\ last.kind = "restart" => processor = PersistedMaxima(db)
  /\ DistinctBy(db.blocks, GlobalIndexOf)
  /\ DistinctBy(db.transactions, GlobalIndexOf)
  /\ DistinctBy(db.boxes, GlobalIndexOf)
  /\ DistinctBy(db.inputs, IdOf)
  /\ DistinctBy(db.data_inputs, IdOf)
  /\ DistinctBy(db.box_assets, IdOf)

(***************************************************************************)
(* C5.  The rows one processor has inserted carry strictly increasing      *)
(* global_index (blocks, transactions, boxes) and id (inputs, data_inputs, *)
(* box_assets) in insertion order.                                         *)
(***************************************************************************)
IncreasingSince(table, start, Key(_)) ==
  \A i, j \in (start + 1)..Len(table) : i < j => Key(table[i]) < Key(table[j])

C5_MonotonicIndices ==
  /\ IncreasingSince(db.blocks, epoch_start.blocks, GlobalIndexOf)
  /\ IncreasingSince(db.transactions, epoch_start.transactions, GlobalIndexOf)
  /\ IncreasingSince(db.boxes, epoch_start.boxes, GlobalIndexOf)
  /\ IncreasingSince(db.inputs, epoch_start.inputs, IdOf)
  /\ IncreasingSince(db.data_inputs, epoch_start.data_inputs, IdOf)
  /\ IncreasingSince(db.box_assets, epoch_start.box_assets, IdOf)

\* The current processor has inserted several rows into each of the six tables.
C5_Witness ==
  \A t \in {"blocks", "transactions", "boxes", "inputs", "data_inputs", "box_assets"} :
    Len(db[t]) - epoch_start[t] >= 2

(***************************************************************************)
(* C6.  Applying again a block that was already applied leaves the numbers *)
(* of rows in transactions, boxes, inputs, data_inputs, box_assets and     *)
(* tokens as they were.                                                    *)
(***************************************************************************)
C6_Idempotence ==
  (Applied /\ last.reapplied) =>
    \A t \in {"transactions", "boxes", "inputs", "data_inputs", "box_assets", "tokens"} :
      Len(db[t]) = Len(last.db_before[t])

(***************************************************************************)
(* C7.  Every inputs row references a stored box whose spent_tx_id is the  *)
(* input's tx_id, and a box has a non-null spend triple exactly when some  *)
(* inputs row references it.                                               *)
(***************************************************************************)
C7_UtxoConsistency ==
  /\ \A i \in Rows(db.inputs) :
       \E b \in Rows(db.boxes) : b.box_id = i.box_id /\ b.spent_tx_id = Some(i.tx_id)
  /\ \A b \in Rows(db.boxes) :
       Spent(b) <=> \E i \in Rows(db.inputs) : i.box_id = b.box_id

(***************************************************************************)
(* C8.  A box inserted by a block is unspent unless an input of that block *)
(* consumes it; after a block at height H whose transaction T consumes a   *)
(* stored box X with input number i, X carries (T, i, H); a spend triple   *)
(* that was set before an operation is still set after it.                 *)
(***************************************************************************)
ConsumedBy(block, box_id) ==
  \E t \in 1..Len(DocTxs(block)) : \E k \in 1..Len(DocInputs(DocTxs(block)[t])) :
    DocInputs(DocTxs(block)[t])[k].boxId = Some(box_id)

C8_SpendFlow ==
  /\ Applied =>
       /\ \A b \in Rows(db.boxes) :
            (~HasBox(last.db_before, b.box_id) /\ ~ConsumedBy(last.block, b.box_id))
              => Unspent(b)
       /\ \A t \in 1..Len(DocTxs(last.block)) :
            LET tx == DocTxs(last.block)[t]
            IN \A k \in 1..Len(DocInputs(tx)) :
                 LET x == DocInputs(tx)[k].boxId[1]
                 IN HasBox(db, x) =>
                      /\ BoxRow(db, x).spent_tx_id = tx.id
                      /\ BoxRow(db, x).spent_index = Some(k - 1)
                      /\ BoxRow(db, x).spent_height = Some(DocHeight(last.block))
  /\ \A b \in Rows(db.boxes) : Unspent(b) \/ Spent(b)
  /\ \A b \in Rows(last.db_before.boxes) :
       Spent(b) => HasBox(db, b.box_id) /\ Spent(BoxRow(db, b.box_id))

\* A block was applied that consumes a box stored, unspent, by an earlier block.
C8_Witness ==
  /\ Applied
  /\ \E b \in Rows(last.db_before.boxes) :
       /\ Unspent(b)
       /\ ConsumedBy(last.block, b.box_id)
       /\ Spent(BoxRow(db, b.box_id))

(***************************************************************************)
(* C9.  Every transactions row has coinbase = TRUE exactly when its        *)
(* index_in_block is 0 or its input_count is 0, where the row of a         *)
(* committed transaction counts a missing inputs array as 0 inputs.        *)
(***************************************************************************)
C9_CoinbaseRule ==
  /\ \A r \in Rows(db.transactions) :
       r.coinbase <=> (r.index_in_block = 0 \/ r.input_count = 0)
  /\ \A block \in committed : \A t \in 1..Len(DocTxs(block)) :
       \E r \in Rows(db.transactions) :
         /\ Some(r.tx_id) = DocTxs(block)[t].id
         /\ r.index_in_block = t - 1
         /\ r.input_count = Len(DocInputs(DocTxs(block)[t]))

\* A stored transaction that is not first in its block and has no inputs array.
C9_Witness ==
  \E block \in committed : \E t \in 2..Len(DocTxs(block)) :
    /\ IsNone(DocTxs(block)[t].inputs)
    /\ \E r \in Rows(db.transactions) :
         Some(r.tx_id) = DocTxs(block)[t].id /\ r.coinbase /\ r.index_in_block > 0

(***************************************************************************)
(* C10.  Every tokens row comes from an output of a committed transaction  *)
(* whose first input's box id is the token id and whose asset at index 0   *)
(* has that token id and the row's emission_amount; a row is the first     *)
(* such candidate in document order; stored rows never change.             *)
(***************************************************************************)
\* Output number o of transaction number t of the block is a minting candidate
\* for the token: asset 0 of the output carries the id of the first input's box.
IsCandidate(block, t, o, token_id) ==
  LET tx == DocTxs(block)[t]
      out == DocOutputs(tx)[o]
  IN /\ Len(DocInputs(tx)) > 0
     /\ DocInputs(tx)[1].boxId = Some(token_id)
     /\ Len(DocAssets(out)) > 0
     /\ DocAssets(out)[1].tokenId = Some(token_id)

Positions(block) ==
  UNION { {<<t, o>> : o \in 1..Len(DocOutputs(DocTxs(block)[t]))} :
          t \in 1..Len(DocTxs(block)) }

Earlier(p, q) == p[1] < q[1] \/ (p[1] = q[1] /\ p[2] < q[2])

FromCandidate(r, block, p) ==
  /\ IsCandidate(block, p[1], p[2], r.token_id)
  /\ DocOutputs(DocTxs(block)[p[1]])[p[2]].boxId = Some(r.box_id)
  /\ DocAssets(DocOutputs(DocTxs(block)[p[1]])[p[2]])[1].amount = r.emission_amount

C10_MintingRule ==
  /\ \A r \in Rows(db.tokens) :
       \E block \in committed : \E p \in Positions(block) : FromCandidate(r, block, p)
  /\ Applied =>
       \A r \in Rows(db.tokens) \ Rows(last.db_before.tokens) :
         \E p \in Positions(last.block) :
           /\ FromCandidate(r, last.block, p)
           /\ \A q \in Positions(last.block) :
                Earlier(q, p) => ~IsCandidate(last.block, q[1], q[2], r.token_id)
  /\ \A i \in 1..Len(last.db_before.tokens) :
       i <= Len(db.tokens) /\ db.tokens[i] = last.db_before.tokens[i]

\* A token is registered, and a block holding a candidate for the same token id
\* was applied afterwards.
C10_Witness ==
  /\ Applied
  /\ \E r \in Rows(last.db_before.tokens) : \E p \in Positions(last.block) :
       IsCandidate(last.block, p[1], p[2], r.token_id)
  /\ \E block \in committed : \E p, q \in Positions(block) :
       /\ p /= q
       /\ \E r \in Rows(db.tokens) :
            IsCandidate(block, p[1], p[2], r.token_id)
            /\ IsCandidate(block, q[1], q[2], r.token_id)

(***************************************************************************)
(* C1: during one sync_once over the gap start_height..end_height, the     *)
(* blocks handed to process_block have strictly increasing heights inside  *)
(* the gap, so each height is applied at most once, whatever order the     *)
(* fetches of a batch completed in; and a block of a later batch is        *)
(* applied only after every height of all earlier batches has been applied.*)
(***************************************************************************)
C1_OrderedApplication ==
  \A k \in 1..Len(applied_log) :
    /\ applied_log[k].height \in start_height..end_height
    /\ \A j \in 1..(k - 1) : applied_log[j].height < applied_log[k].height
    /\ \A h \in start_height..(start_height + (applied_log[k].batch - 1) * BatchSize - 1) :
         \E j \in 1..(k - 1) : applied_log[j].height = h

\* The second batch is being applied and its fetches completed out of height order.
C1_Witness ==
  /\ Len(results) = 2
  /\ results[1].height > results[2].height
  /\ \E k \in 1..Len(applied_log) :
       /\ applied_log[k].batch = 2
       /\ applied_log[k].height = results[1].height

(***************************************************************************)
(* C11.  For every address, an applied block adds to the address_stats     *)
(* row's tx_count the number of the block's outputs to that address        *)
(* (starting from no row), first_seen_height is the height of the block    *)
(* that created the row and is kept afterwards, last_seen_height never     *)
(* decreases, and an operation that applies nothing leaves the rows alone. *)
(***************************************************************************)
AddressRows(d, address) == {r \in Rows(d.address_stats) : r.address = address}

OutputsTo(block, address) ==
  Cardinality({p \in Positions(block) :
     AddressOf(DocOutputs(DocTxs(block)[p[1]])[p[2]].ergoTree) = address})

C11_AddressStats ==
  /\ Applied =>
       \A r \in Rows(db.address_stats) :
         /\ OutputsTo(last.block, r.address) > 0 \/ r \in Rows(last.db_before.address_stats)
         /\ \A b \in AddressRows(last.db_before, r.address) :
              /\ r.tx_count = b.tx_count + OutputsTo(last.block, r.address)
              /\ r.first_seen_height = b.first_seen_height
              /\ r.last_seen_height >= b.last_seen_height
         /\ AddressRows(last.db_before, r.address) = {} =>
              /\ r.tx_count = OutputsTo(last.block, r.address)
              /\ r.first_seen_height = DocHeight(last.block)
  /\ \A b \in Rows(last.db_before.address_stats) : AddressRows(db, b.address) /= {}
  /\ ~Applied => db.address_stats = last.db_before.address_stats

(***************************************************************************)
(* C12.  In every store state at most one blocks row per height has        *)
(* main_chain = TRUE, also after a node has served another block id for a  *)
(* height that is already stored.                                          *)
(***************************************************************************)
C12_OneMainChainPerHeight ==
  \A i, j \in 1..Len(db.blocks) :
    (i /= j /\ db.blocks[i].main_chain /\ db.blocks[j].main_chain)
      => db.blocks[i].height /= db.blocks[j].height

\* A block with a new id for a stored height was handed to process_block.
C12_Witness ==
  /\ last.kind = "apply" /\ last.stage \in {"sql", "ok"}
  /\ \E r \in Rows(last.db_before.blocks) :
       /\ r.main_chain
       /\ r.height = DocHeight(last.block)
       /\ Some(r.block_id) /= last.block.header[1].id
  /\ Len(db.blocks) >= 2

(***************************************************************************)
(* C13.  A height of a batch is attempted at most 3 times and yields an    *)
(* error only after its third failed attempt; blocks are applied only when *)
(* every height of the batch was fetched, so a batch with a failed height  *)
(* applies nothing, sync_once returns the error to the run loop, and the   *)
(* next sync_once starts at the store's height + 1.                        *)
(***************************************************************************)
StoreHeight(d) == IF Len(d.blocks) = 0 THEN -1 ELSE MaxHeight(d)

C13_FetchRetries ==
  /\ \A i \in 1..Len(tasks) :
       /\ tasks[i].attempt <= MaxAttempts
       /\ tasks[i].state = "running" => tasks[i].attempt < MaxAttempts
       /\ \A k \in 1..Len(results) :
            (results[k].height = tasks[i].height /\ ~results[k].ok)
              => tasks[i].attempt = MaxAttempts
  /\ pc = "fetch" =>
       \A k \in 1..Len(applied_log) : applied_log[k].batch <= batch_count
  /\ pc = "apply" =>
       /\ Len(results) = batch_end - current_height + 1
       /\ \A k \in 1..Len(results) : results[k].ok
  /\ (pc = "sleep" /\ returned = "fetch") =>
       /\ last_error = Some("fetch")
       /\ \A k \in 1..Len(applied_log) : applied_log[k].batch <= batch_count
       /\ StoreHeight(db) < current_height
  /\ (pc = "batch" /\ batch_count = 0) => start_height = StoreHeight(db) + 1

\* A sync_once whose second batch failed to fetch was followed by a sync_once that
\* starts behind the blocks the first batch had stored.
C13_Witness ==
  /\ returned = "fetch"
  /\ pc = "batch" /\ batch_count = 0
  /\ start_height = BatchSize
  /\ StoreHeight(db) = BatchSize - 1

BestNodeFound ==
  \/ pc /= "sleep"
  \/ returned \in {"store", "uptodate", "synced", "fetch", "apply"}

ConnectedHeights ==
  {node_statuses[n].height[1] : n \in {m \in Nodes : node_statuses[m].connected}}

C15_BestNode ==
  BestNodeFound =>
    /\ node_height \in ConnectedHeights
    /\ \A h \in ConnectedHeights : h <= node_height
    /\ node_statuses[best_node_idx].connected
    /\ node_statuses[best_node_idx].height = Some(node_height)

\* Both probes succeeded and the second node reported the greater height.
C15_Witness ==
  /\ BestNodeFound
  /\ \A n \in Nodes : node_statuses[n].connected
  /\ best_node_idx = 1
  /\ node_statuses[0].height[1] > 0
  /\ node_statuses[0].height[1] < node_statuses[1].height[1]

(***************************************************************************)
(* C16.  A sync_once has failed with the no-nodes-available error exactly  *)
(* when the info probe of every configured node failed; with at least one  *)
(* successful probe the failed ones are only marked disconnected.          *)
(***************************************************************************)
C16_NoNodesIffAllFailed ==
  (pc = "sleep" /\ returned /= "none") =>
    (returned = "No nodes available" <=> \A n \in Nodes : ~node_statuses[n].connected)

(***************************************************************************)
(* C17.  A sync_once that finds a node while the store's height is already *)
(* at or above the best node's height returns Ok without fetching,         *)
(* applying or checkpointing, and leaves the store, the processor,         *)
(* is_syncing, blocks_synced and sync_start_time as they were.             *)
(***************************************************************************)
C17_UpToDateFrame ==
  [][ ( /\ pc = "sleep"
        /\ rounds' = rounds + 1
        /\ returned' /= "No nodes available"
        /\ StoreHeight(db) >= node_height' )
      => ( /\ returned' = "uptodate"
           /\ pc' = "sleep"
           /\ local_height' = StoreHeight(db)
           /\ applied_log' = <<>>
           /\ checkpoints' = <<>>
           /\ UNCHANGED << db, processor, calls, is_syncing, blocks_synced,
                           sync_start_time, last_error, tasks, results, blocks >> ) ]_vars

\* A sync_once has returned early on a store that holds blocks, after an earlier
\* sync_once had counted synced blocks.
C17_Witness ==
  /\ pc = "sleep" /\ returned = "uptodate"
  /\ Len(db.blocks) > 0
  /\ StoreHeight(db) >= node_height
  /\ blocks_synced > 0

(***************************************************************************)
(* C18.  The checkpoint calls a sync_once has made are, in order, one      *)
(* after each completed batch whose number is a multiple of the checkpoint *)
(* interval, and one more once the sync_once has applied all its batches;  *)
(* in particular none is made while a batch is fetched or applied, and a   *)
(* sync_once that begins no gap or is aborted makes no final one.          *)
(***************************************************************************)
PeriodicCheckpoints ==
  [k \in 1..(batch_count \div checkpoint_interval) |-> k * checkpoint_interval]

CheckpointCalls == [k \in 1..Len(checkpoints) |-> checkpoints[k].batch]

\* The most recent sync_once began a gap (it is running, or it returned from one).
BeganGap == pc /= "sleep" \/ returned \in {"synced", "fetch", "apply"}

C18_CheckpointSchedule ==
  /\ ~BeganGap => checkpoints = <<>>
  /\ (BeganGap /\ ~(pc = "sleep" /\ returned = "synced")) =>
       CheckpointCalls = PeriodicCheckpoints
  /\ (pc = "sleep" /\ returned = "synced") =>
       /\ CheckpointCalls = Append(PeriodicCheckpoints, batch_count)
       /\ current_height = end_height + 1

\* A finished sync_once of two batches: none after the first, one after the second,
\* one final.
C18_Witness ==
  /\ pc = "sleep" /\ returned = "synced"
  /\ checkpoint_interval = 2
  /\ batch_count = 2
  /\ Len(checkpoints) = 2
  /\ Len(applied_log) > BatchSize

(***************************************************************************)
(* C19.  A checkpoint call that fails changes nothing but the log of       *)
(* calls: after a periodic one the batch is counted and published and the  *)
(* loop goes on to the next batch; after the final one sync_once returns   *)
(* Ok with is_syncing false; last_error and the store are left alone.      *)
(***************************************************************************)
CheckpointFailsInStep ==
  /\ Len(checkpoints') = Len(checkpoints) + 1
  /\ ~checkpoints'[Len(checkpoints')].ok

C19_CheckpointFailureNotFatal ==
  [][ CheckpointFailsInStep =>
        /\ UNCHANGED << db, processor, last_error, applied_log >>
        /\ pc = "apply" =>
             /\ pc' = "batch"
             /\ batch_count' = batch_count + 1
             /\ blocks_synced' = blocks_synced + (batch_end - current_height + 1)
             /\ local_height' = batch_end
             /\ current_height' = batch_end + 1
             /\ UNCHANGED << is_syncing, returned >>
        /\ pc = "batch" =>
             /\ pc' = "sleep"
             /\ returned' = "synced"
             /\ is_syncing' = FALSE ]_vars

\* The checkpoint after the first batch failed and so did the final one; the second
\* batch was applied and sync_once returned Ok.
C19_Witness ==
  /\ pc = "sleep" /\ returned = "synced"
  /\ Len(checkpoints) >= 2
  /\ checkpoints[1].batch = 1 /\ ~checkpoints[1].ok
  /\ ~checkpoints[Len(checkpoints)].ok
  /\ \E k \in 1..Len(applied_log) : applied_log[k].batch = 2
  /\ ~is_syncing
  /\ last_error = None

(***************************************************************************)
(* C20.  The error status() shows is last_error: after a sync_once that    *)
(* failed it is that sync_once's error, and after a sync_once that         *)
(* returned Ok, with or without a gap to sync, it is empty.                *)
(***************************************************************************)
StatusError == last_error

C20_LastErrorCleared ==
  /\ (pc = "sleep" /\ returned \in {"uptodate", "synced"}) => StatusError = None
  /\ (pc = "sleep" /\ returned \notin {"none", "uptodate", "synced"}) =>
       StatusError = Some(returned)

(***************************************************************************)
(* SyncService::get_status                                                 *)
(***************************************************************************)
\* local_height as f64 / node_height as f64 and 0.0 and 1.0, kept as exact
\* fractions with a positive denominator.
Ratio(n, d) == [num |-> n, den |-> d]

\* get_status, lines 360-370: the atomics are loaded and the progress computed;
\* f64::min(1.0) replaces a quotient above 1.
GetStatus ==
  [ is_syncing |-> is_syncing,
    local_height |-> local_height,
    node_height |-> node_height,
    sync_progress |->
      IF node_height > 0
      THEN IF local_height > node_height THEN Ratio(1, 1)
           ELSE Ratio(local_height, node_height)
      ELSE Ratio(0, 1),
    connected_nodes |-> node_statuses,
    error |-> last_error ]

(***************************************************************************)
(* C21.  Whenever status() can be called (before the first sync, with an   *)
(* empty store, mid-sync, after an abort) the sync_progress it reports     *)
(* lies in [0, 1].                                                         *)
(***************************************************************************)
C21_ProgressInUnitInterval ==
  LET p == GetStatus.sync_progress
  IN /\ p.den > 0
     /\ 0 <= p.num
     /\ p.num <= p.den

(***************************************************************************)
(* C22.  get_sync_height() returns the maximum height over all blocks      *)
(* rows, and -1 (not an error) when the blocks table is empty, so that the *)
(* first sync of an empty store starts at height 0: no sync_once ends at   *)
(* the store read, and when a sync begins the height it read is the        *)
(* greatest height stored, or -1 with start_height 0 on an empty store.    *)
(***************************************************************************)
BlockHeights(d) == {d.blocks[i].height : i \in 1..Len(d.blocks)}

SyncBegun == pc = "batch" /\ batch_count = 0 /\ current_height = start_height

C22_SyncHeight ==
  /\ returned /= "store"
  /\ SyncBegun =>
       /\ start_height = local_height + 1
       /\ IF BlockHeights(db) = {}
          THEN local_height = -1 /\ start_height = 0
          ELSE /\ local_height \in BlockHeights(db)
               /\ \A h \in BlockHeights(db) : h <= local_height

(***************************************************************************)
(* C29.  The node used to fetch the block at height h is the configured    *)
(* node with index h mod num_nodes, for every height of every batch,       *)
(* wherever the batch starts.                                              *)
(***************************************************************************)
C29_NodeByHeight ==
  \A i \in 1..Len(tasks) :
    /\ tasks[i].node \in Nodes
    /\ tasks[i].node = tasks[i].height % NumNodes

(***************************************************************************)
(* C30.  A height's fetch does not wait before attempt 0, waits 1000 ms    *)
(* (500 ms x 2^1) before attempt 1 and 2000 ms (500 ms x 2^2) before       *)
(* attempt 2, and the waits of a height that fails all 3 attempts sum to   *)
(* at most 3.5 s.                                                          *)
(***************************************************************************)
RECURSIVE SumSeq(_)
SumSeq(q) == IF q = <<>> THEN 0 ELSE q[1] + SumSeq(Tail(q))

FailedAllAttempts(t) == t.state = "done" /\ t.attempt = MaxAttempts

C30_Backoff ==
  \A i \in 1..Len(tasks) :
    LET t == tasks[i]
    IN /\ t.state = "running" =>
            /\ t.attempt \in 0..2
            /\ Len(t.slept) = t.attempt
       /\ (t.state = "queued" \/ t.attempt = 0) => t.slept = <<>>
       /\ Len(t.slept) >= 1 => t.slept[1] = 1000
       /\ Len(t.slept) >= 2 => t.slept[2] = 2000
       /\ Len(t.slept) <= 2
       /\ FailedAllAttempts(t) => SumSeq(t.slept) <= 3500

C30_Witness ==
  \E i \in 1..Len(tasks) :
    /\ FailedAllAttempts(tasks[i])
    /\ tasks[i].slept = << 1000, 2000 >>

(***************************************************************************)
(* C23.  migrate() applies exactly the migrations not yet recorded in      *)
(* _migrations, in list order, recording each with its id and name;        *)
(* running migrate() again on the same database applies nothing and        *)
(* leaves _migrations unchanged.                                           *)
(***************************************************************************)
\* The ids of the list that a table does not hold, ascending.
RECURSIVE MissingFrom(_, _)
MissingFrom(before, id) ==
  IF id >= Len(MIGRATIONS) THEN <<>>
  ELSE IF \E k \in 1..Len(before) : before[k].id = id
  THEN MissingFrom(before, id + 1)
  ELSE << id >> \o MissingFrom(before, id + 1)

IsPrefix(p, q) == Len(p) <= Len(q) /\ SubSeq(q, 1, Len(p)) = p

AllRecorded(table) ==
  /\ Len(table) = Len(MIGRATIONS)
  /\ \A k \in 1..Len(table) : table[k] = [id |-> k - 1, name |-> MIGRATIONS[k]]

C23_Migrate ==
  migrate_calls > 0 =>
    /\ IsPrefix(migrated.ran, MissingFrom(migrated.before, 0))
    /\ IsPrefix(migrated.before, migrations)
    /\ \A k \in 1..Len(migrations) : \A j \in 1..Len(migrations) :
         migrations[k].id = migrations[j].id => k = j
    /\ migrated.ok =>
         /\ migrated.ran = MissingFrom(migrated.before, 0)
         /\ Len(migrations) = Len(migrated.before) + Len(migrated.ran)
         /\ \A k \in 1..Len(migrated.ran) :
              migrations[Len(migrated.before) + k] =
                [id |-> migrated.ran[k], name |-> MIGRATIONS[migrated.ran[k] + 1]]
         /\ AllRecorded(migrations)
         /\ AllRecorded(migrated.before) =>
              migrated.ran = <<>> /\ migrations = migrated.before

\* migrate() returned Ok for the second time: the second call found every
\* migration recorded by the first and applied nothing.
C23_Witness ==
  /\ migrate_calls = 2
  /\ migrated.ok
  /\ AllRecorded(migrated.before)
  /\ schema_log = << 0, 1, 2, 3 >>
  /\ migrations = migrated.before

(***************************************************************************)
(* Reading an address back: the bytes a Base58 text stands for             *)
(***************************************************************************)
\* The position of a character in the alphabet, from 0; -1 outside it.
Base58Index(c) ==
  IF \E a \in 1..58 : BASE58_ALPHABET[a] = c
  THEN (CHOOSE a \in 1..58 : BASE58_ALPHABET[a] = c) - 1
  ELSE -1

InAlphabet(text) == \A k \in 1..Len(text) : Base58Index(text[k]) >= 0

\* num * 58 + digit on a big-endian byte string without leading zeros.
MulAdd58(num, digit) ==
  LET r == Fold(LAMBDA st, byte :
                  [ carry |-> (byte * 58 + st.carry) \div 256,
                    out |-> << (byte * 58 + st.carry) % 256 >> \o st.out ],
                [carry |-> digit, out |-> <<>>], Reverse(num))
  IN IF r.carry > 0 THEN << r.carry >> \o r.out ELSE r.out

\* The number written by base-58 digits, as bytes without leading zeros.
NumberOf(text) == Fold(LAMBDA num, c : MulAdd58(num, Base58Index(c)), <<>>, text)

RECURSIVE LeadingOnes(_)
LeadingOnes(text) ==
  IF text /= <<>> /\ text[1] = 49 THEN 1 + LeadingOnes(Tail(text)) ELSE 0

\* The byte string a Base58 text stands for: one zero byte per leading '1',
\* then the number the remaining digits write.
Base58Payload(text) ==
  LET ones == LeadingOnes(text)
  IN Repeat(0, ones) \o NumberOf(SubSeq(text, ones + 1, Len(text)))

\* ret is an address whose payload is type || body || the first 4 bytes of the
\* hash of type || body.
IsAddressOf(type, body) ==
  /\ IsSome(ret)
  /\ InAlphabet(ret[1])
  /\ Base58Payload(ret[1]) =
       << type >> \o body \o SubSeq(Blake2b256(<< type >> \o body), 1, 4)

IsP2pkScript(bytes) ==
  Len(bytes) >= 36 /\ bytes[1] = 0 /\ bytes[2] = 8 /\ bytes[3] = 205

MinerPkRule ==
  fn = "miner_pk_to_address" =>
    LET decoded == HexDecode(arg.v)
    IN IF IsSome(decoded) /\ Len(decoded[1]) = 33
       THEN IsAddressOf(1, decoded[1])
       ELSE ret = None

(***************************************************************************)
(* C24.  ergo_tree_to_address returns None for invalid hex; for a script   *)
(* whose first three bytes are 00 08 cd and whose length is >= 36 it       *)
(* encodes the P2PK payload 0x01 || bytes[3..36] || checksum(4); for every *)
(* other decodable script it encodes the P2S payload 0x03 || all script    *)
(* bytes || checksum(4), the checksum being the first 4 bytes of the hash  *)
(* of the preceding bytes; miner_pk_to_address yields the P2PK form only   *)
(* for exactly 33 bytes.                                                   *)
(***************************************************************************)
C24_AddressEncoding ==
  /\ fn = "ergo_tree_to_address" =>
       LET decoded == HexDecode(arg.v)
       IN IF IsNone(decoded) THEN ret = None
          ELSE IF IsP2pkScript(decoded[1])
          THEN IsAddressOf(1, SubSeq(decoded[1], 4, 36))
          ELSE IsAddressOf(3, decoded[1])
  /\ MinerPkRule

\* C24 as amended: the same, except that the empty script (the empty text, which
\* is valid hex) gives None like invalid hex, not a P2S address.
C24_AddressEncodingNonEmpty ==
  /\ fn = "ergo_tree_to_address" =>
       LET decoded == HexDecode(arg.v)
       IN IF IsNone(decoded) \/ decoded = Some(<<>>) THEN ret = None
          ELSE IF IsP2pkScript(decoded[1])
          THEN IsAddressOf(1, SubSeq(decoded[1], 4, 36))
          ELSE IsAddressOf(3, decoded[1])
  /\ MinerPkRule

\* ergo_tree_to_address was applied to a 37-byte script with the P2PK head and
\* returned an address.
C24_Witness ==
  /\ fn = "ergo_tree_to_address"
  /\ IsSome(HexDecode(arg.v))
  /\ Len(HexDecode(arg.v)[1]) = 37
  /\ IsP2pkScript(HexDecode(arg.v)[1])
  /\ IsAddressOf(1, SubSeq(HexDecode(arg.v)[1], 4, 36))

(***************************************************************************)
(* C25.  For every byte string with exactly k leading zero bytes          *)
(* (strings made only of zero bytes included), base58_encode returns a     *)
(* text with exactly k leading '1' characters followed by the base-58      *)
(* digits of the remaining number.                                         *)
(***************************************************************************)
C25_LeadingOnes ==
  fn = "base58_encode" =>
    LET k == TakeWhileZero(arg.v)
    IN /\ InAlphabet(encoded)
       /\ LeadingOnes(encoded) = k
       /\ NumberOf(SubSeq(encoded, k + 1, Len(encoded))) = SubSeq(arg.v, k + 1, Len(arg.v))

(***************************************************************************)
(* C26.  validate_address(s) is true if and only if s has at least 30      *)
(* characters and every character of s belongs to the 58-character Base58  *)
(* alphabet (no '0', 'O', 'I' or 'l'); no checksum is examined.            *)
(***************************************************************************)
C26_ValidateAddress ==
  fn = "validate_address" => (valid <=> (Len(arg.v) >= 30 /\ InAlphabet(arg.v)))

(***************************************************************************)
(* The integer a VLQ byte string writes                                    *)
(***************************************************************************)
\* The position of the first byte without the high bit, from 1; 0 when every
\* byte has it.
FirstTerminator(bytes) ==
  IF \E j \in 1..Len(bytes) : bytes[j] < 128
  THEN CHOOSE j \in 1..Len(bytes) : bytes[j] < 128 /\ \A h \in 1..(j - 1) : bytes[h] >= 128
  ELSE 0

\* The sum of the 7-bit groups from..to of bytes, the group at `from` weighing 1
\* and each later one 128 times the one before.
RECURSIVE GroupSum(_, _, _)
GroupSum(bytes, from, to) ==
  IF from > to THEN 0
  ELSE (bytes[from] % 128) + 128 * GroupSum(bytes, from + 1, to)

\* The little-endian integer of the first t groups: four groups fill the low
\* 28 bits, the later ones the bits above.
VlqValue(bytes, t) ==
  Usize(GroupSum(bytes, 1, IF t < 4 THEN t ELSE 4), GroupSum(bytes, 5, t))

VlqExamples ==
  /\ arg.v = << 0 >> => vlq_ret = Some(<< Usize(0, 0), 1 >>)
  /\ arg.v = << 127 >> => vlq_ret = Some(<< Usize(127, 0), 1 >>)
  /\ arg.v = << 128, 1 >> => vlq_ret = Some(<< Usize(128, 0), 2 >>)

C28_SigmaString ==
  (fn = "decode_sigma_string" /\ IsSome(HexDecode(arg.v))
     /\ HexDecode(arg.v)[1] /= <<>> /\ HexDecode(arg.v)[1][1] = 14) =>
    LET bytes == HexDecode(arg.v)[1]
        t == FirstTerminator(Tail(bytes))
        len == VlqValue(Tail(bytes), t)
        remain == Len(bytes) - 1 - t
    IN IF t = 0 \/ t > 6 THEN ret = None
       ELSE IF len.hi > 0 \/ len.lo > remain THEN ret = None
       ELSE /\ ret = StringFromUtf8(SubSeq(bytes, t + 2, t + 1 + len.lo))
            /\ bytes = << 14, 2, 195, 169 >> => ret = Some(<< 233 >>)
            /\ bytes = << 14, 1, 65, 65 >> => ret = Some(<< 65 >>)

\* decode_sigma_string read the payload 0e 02 c3 a9 as the one character U+00E9.
C28_Witness ==
  /\ fn = "decode_sigma_string"
  /\ HexDecode(arg.v) = Some(<< 14, 2, 195, 169 >>)
  /\ ret = Some(<< 233 >>)

(***************************************************************************)
(* C31.  After each completed batch, blocks_synced has grown by the number *)
(* of blocks applied in that batch and local_height equals the batch's     *)
(* last height; hence after a sync_once that returns Ok having synced,     *)
(* blocks_synced = node_best - (initial local height) and local_height =   *)
(* node_best, also when the last batch is shorter than the configured      *)
(* batch size.                                                             *)
(***************************************************************************)
\* The blocks this sync_once handed to process_block in batch b.
AppliedIn(b) == {k \in 1..Len(applied_log) : applied_log[k].batch = b}

BatchCompleted == pc = "batch" /\ batch_count > 0

SyncedOk == pc = "sleep" /\ returned = "synced"

C31_BatchProgress ==
  /\ BatchCompleted =>
       /\ blocks_synced = Len(applied_log)
       /\ \A b \in 1..batch_count : AppliedIn(b) /= {}
       /\ local_height = applied_log[Len(applied_log)].height
       /\ local_height = batch_end
  /\ SyncedOk =>
       /\ blocks_synced = node_height - (start_height - 1)
       /\ local_height = node_height

\* A sync_once returned Ok after two batches of which the last was shorter than
\* the configured batch size.
C31_Witness ==
  /\ SyncedOk
  /\ batch_count = 2
  /\ Cardinality(AppliedIn(2)) < BatchSize
  /\ blocks_synced = BatchSize + Cardinality(AppliedIn(2))

(***************************************************************************)
(* C32.  decode_vlq accepts at most 5 seven-bit groups (35 bits): every    *)
(* input whose first 5 bytes all have the continuation bit set yields      *)
(* None, and no accepted value uses more than 35 bits.                     *)
(***************************************************************************)
\* A usize below 2^35: the limb above bit 28 is below 2^7.
FitsBits35(value) == value.hi < 2 ^ 7

C32_FiveGroupCeiling ==
  fn = "decode_vlq" =>
    /\ (Len(arg.v) >= 5 /\ \A j \in 1..5 : arg.v[j] >= 128) => vlq_ret = None
    /\ IsSome(vlq_ret) => FitsBits35(vlq_ret[1][1])

(***************************************************************************)
(* C33.  decode_sigma_int on a payload tagged 0x04 or 0x05 returns the     *)
(* zig-zag decoding (v >> 1) XOR -(v AND 1) of the VLQ value v that        *)
(* follows the tag, as a signed 32-bit integer, for every v the VLQ        *)
(* decoder accepts (e.g. v = 4 gives 2, v = 1 gives -1); a value that does *)
(* not fit 32 bits is not silently truncated to a different number.        *)
(***************************************************************************)
\* The payload of the call is tagged 0x04 or 0x05 and the VLQ decoder accepts
\* what follows the tag.
ZigZagPayload ==
  /\ fn = "decode_sigma_int"
  /\ IsSome(HexDecode(arg.v))
  /\ Len(HexDecode(arg.v)[1]) > 1
  /\ HexDecode(arg.v)[1][1] \in {4, 5}
  /\ FirstTerminator(Tail(HexDecode(arg.v)[1])) \in 1..6

\* v, the value after the tag, as the sum of its groups.
ZigZagV ==
  LET rest == Tail(HexDecode(arg.v)[1]) IN VlqValue(rest, FirstTerminator(rest))

\* The zig-zag decoding fits an i32 exactly when v is below 2^32.
ZigZagFits(v) == v.hi < 16

\* v / 2 for an even v and -(v + 1) / 2 for an odd one, v below 2^32.
ZigZag(v) ==
  LET half == (v.lo \div 2) + (v.hi % 2) * (2 ^ 27) + (v.hi \div 2) * (2 ^ 28)
  IN IF v.lo % 2 = 0 THEN half ELSE (-half) - 1

C33_ZigZag ==
  ZigZagPayload =>
    /\ ZigZagV = Usize(4, 0) => int_ret = Some(2)
    /\ ZigZagV = Usize(1, 0) => int_ret = Some(-1)
    /\ IF ZigZagFits(ZigZagV) THEN int_ret = Some(ZigZag(ZigZagV)) ELSE int_ret = None

(***************************************************************************)
(* C34.  A node's status entry changes only inside find_best_node:         *)
(* block-fetch successes and failures during fetch_blocks_parallel leave   *)
(* node_statuses unchanged, and fetches are distributed over all           *)
(* configured nodes, including nodes currently marked disconnected.        *)
(***************************************************************************)
\* find_best_node runs in the step that enters sync_once, and nowhere else.
InFindBestNode == pc = "sleep" /\ rounds' = rounds + 1

\* The nodes the tasks of the running fetch are bound to.
FetchNodes == {tasks[i].node : i \in 1..Len(tasks)}

C34_StatusOnlyFromProbe ==
  /\ [][node_statuses' /= node_statuses => InFindBestNode]_vars
  /\ [](pc = "fetch" =>
          /\ \A i \in 1..Len(tasks) : tasks[i].node = (i - 1) % NumNodes
          /\ FetchNodes = {n \in Nodes : n < Len(tasks)})

\* A fetch of two heights is running, a task bound to a node that the last probe
\* marked disconnected has failed an attempt, and that node's entry is as the
\* probe left it.
C34_Witness ==
  /\ pc = "fetch"
  /\ FetchNodes = Nodes
  /\ \E i \in 1..Len(tasks) :
       /\ ~node_statuses[tasks[i].node].connected
       /\ tasks[i].attempt > 0
  /\ \E i \in 1..Len(tasks) :
       /\ node_statuses[tasks[i].node].connected
       /\ tasks[i].state = "done"

(***************************************************************************)
(* C35: a block document missing a required field (header, header.id,      *)
(* header.height, blockTransactions.transactions, a transaction's id or    *)
(* outputs, an input's or output's boxId, an asset's tokenId) makes        *)
(* process_block return an error before any SQL statement has run: the     *)
(* call ends while parsing or collecting, the connection's working state   *)
(* is the store as the call found it, and the store is unchanged.          *)
(***************************************************************************)
MalformedCall == last.kind = "apply" /\ last.block \in MissingField

C35_MissingFieldNoSql ==
  MalformedCall =>
    /\ last.err
    /\ last.stage \in {"parse", "collect"}
    /\ last.dirty = last.db_before
    /\ db = last.db_before

\* A missing tokenId is met after rows of the same block have been collected,
\* on a store that already holds a block.
C35_Witness ==
  /\ MalformedCall
  /\ last.block = NoTokenId
  /\ last.stage = "collect"
  /\ processor.box_asset_id > last.self_before.box_asset_id
  /\ Len(db.blocks) > 0

(***************************************************************************)
(* C36: a read query issued while the sync loop is applying blocks never   *)
(* observes a partially applied block: of any given block the tables it    *)
(* ran on hold either every row and spend mark or none; and at most one    *)
(* process_block is executing against the store at any time: an open       *)
(* transaction belongs to the block at the head of the one apply loop,     *)
(* which holds the processor's guard.                                      *)
(***************************************************************************)
WellFormedDocs == { Block0, Block1, Block2, Fork1, Chained1 }

DocId(block) == block.header[1].id[1]

TxIds(block) == { DocTxs(block)[t].id[1] : t \in 1..Len(DocTxs(block)) }

\* Every row and spend mark of the block is in the tables.
WhollyIn(d, block) ==
  /\ HasBlock(d, DocId(block))
  /\ \A t \in 1..Len(DocTxs(block)) :
       LET tx == DocTxs(block)[t]
       IN /\ \E row \in Rows(d.transactions) :
               row.tx_id = tx.id[1] /\ row.block_id = DocId(block)
          /\ \A k \in 1..Len(DocOutputs(tx)) :
               LET box_id == DocOutputs(tx)[k].boxId[1]
               IN /\ \E row \in Rows(d.boxes) :
                       row.box_id = box_id /\ row.tx_id = tx.id[1]
                  /\ \A a \in 1..Len(DocAssets(DocOutputs(tx)[k])) :
                       \E row \in Rows(d.box_assets) :
                         row.box_id = box_id /\ row.asset_index = a - 1
          /\ \A k \in 1..Len(DocInputs(tx)) :
               LET box_id == DocInputs(tx)[k].boxId[1]
               IN /\ \E row \in Rows(d.inputs) :
                       row.tx_id = tx.id[1] /\ row.box_id = box_id
                  /\ HasBox(d, box_id)
                  /\ BoxRow(d, box_id).spent_tx_id = Some(tx.id[1])

\* No row and no spend mark of the block is in the tables.
NothingIn(d, block) ==
  /\ ~HasBlock(d, DocId(block))
  /\ \A row \in Rows(d.transactions) : row.tx_id \notin TxIds(block)
  /\ \A row \in Rows(d.boxes) :
       /\ row.tx_id \notin TxIds(block)
       /\ \A id \in TxIds(block) : row.spent_tx_id /= Some(id)
  /\ \A row \in Rows(d.inputs) : row.tx_id \notin TxIds(block)
  /\ \A row \in Rows(d.data_inputs) : row.tx_id \notin TxIds(block)
  /\ \A row \in Rows(d.tokens) :
       \A tx_row \in Rows(d.boxes) :
         tx_row.box_id = row.box_id => tx_row.tx_id \notin TxIds(block)

C36_ReadersSeeWholeBlocks ==
  /\ IsSome(observed) =>
       \A block \in WellFormedDocs :
         WhollyIn(observed[1], block) \/ NothingIn(observed[1], block)
  /\ IsSome(txn) =>
       /\ processor_guard
       /\ queue /= <<>> /\ Head(queue) = txn[1].block
       /\ txn[1].r.err \/ txn[1].step < FlushSteps
            \/ txn[1].r = FlushStatements(db, txn[1].collected)

\* A query has seen block 1 whole and nothing of block 2 while the transaction
\* of block 2 has run its box inserts and spend updates on the connection.
C36_Witness ==
  /\ IsSome(observed) /\ IsSome(txn)
  /\ txn[1].block = Block2 /\ txn[1].step >= 4 /\ ~txn[1].r.err
  /\ WhollyIn(observed[1], Block1) /\ NothingIn(observed[1], Block2)
  /\ ~NothingIn(Connection, Block2) /\ ~WhollyIn(Connection, Block2)

(***************************************************************************)
(* C37: is_syncing is true only while a sync_once is between starting its  *)
(* gap and returning: whenever sync_once has returned, with Ok or with an  *)
(* error, is_syncing is false and get_status reports no eta_seconds.       *)
(***************************************************************************)
\* get_status, lines 377-389: eta is Some(..) when is_syncing, sync_start > 0 and
\* bps = blocks_synced / elapsed > 0.
EtaReported == is_syncing /\ sync_start_time > 0 /\ blocks_synced > 0

C37_IdleNotSyncing ==
  pc = "sleep" => ~is_syncing /\ ~EtaReported

(***************************************************************************)
(* C38: after any sequence of sync_once runs, runs aborted by a fetch      *)
(* failure or by an apply error in the middle of a batch included, the     *)
(* heights present in blocks form a range without a gap that starts at the *)
(* first synced height, 0; so a run that resumes from MAX(height) + 1      *)
(* finds every height below its start stored.                              *)
(***************************************************************************)
C38_ContiguousHeights ==
  /\ \A h \in BlockHeights(db) : \A g \in 0..h : g \in BlockHeights(db)
  /\ pc \in {"batch", "fetch", "apply"} =>
       \A g \in 0..(start_height - 1) : g \in BlockHeights(db)

\* The second sync_once resumed at height 1, applied it and was aborted by the
\* apply error of height 2, the second block of its batch.
C38_Witness ==
  /\ pc = "sleep" /\ rounds = 2 /\ returned = "apply"
  /\ start_height = 1
  /\ Failed /\ last.block = Block2
  /\ BlockHeights(db) = {0, 1}

(***************************************************************************)
(* C39: a box created by one transaction and consumed by a later           *)
(* transaction of the same block is stored with its spend triple set after *)
(* the block is applied, because every box row of the block is inserted    *)
(* before any of its inputs is processed: while the closure has not passed *)
(* the box inserts no input row and no spend mark has been written, once   *)
(* it has passed them every output of the block has its row, and the       *)
(* spend updates that follow find the rows.                                *)
(***************************************************************************)
\* The boxes an earlier transaction of the block creates and a later one consumes.
CreatedAndConsumed(block) ==
  LET txs == DocTxs(block)
      CreatedBefore(j, box) ==
        \E i \in 1..(j - 1) : \E o \in 1..Len(DocOutputs(txs[i])) :
          DocOutputs(txs[i])[o].boxId = box
  IN UNION { { [ box_id |-> DocInputs(txs[j])[k].boxId[1],
                 tx_id |-> txs[j].id[1], index |-> k - 1 ] :
               k \in { n \in 1..Len(DocInputs(txs[j])) :
                         CreatedBefore(j, DocInputs(txs[j])[n].boxId) } } :
             j \in 1..Len(txs) }

SpentBy(d, c, height) ==
  /\ HasBox(d, c.box_id)
  /\ BoxRow(d, c.box_id).spent_tx_id = Some(c.tx_id)
  /\ BoxRow(d, c.box_id).spent_index = Some(c.index)
  /\ BoxRow(d, c.box_id).spent_height = Some(height)

C39_IntraBlockSpend ==
  /\ Applied =>
       \A c \in CreatedAndConsumed(last.block) : SpentBy(db, c, DocHeight(last.block))
  /\ (IsSome(txn) /\ ~txn[1].r.err) =>
       LET block == txn[1].block
       IN /\ txn[1].step <= 3 =>
               /\ Connection.inputs = db.inputs
               /\ \A b \in Rows(Connection.boxes) :
                    IF HasBox(db, b.box_id) THEN b = BoxRow(db, b.box_id) ELSE Unspent(b)
          /\ txn[1].step >= 3 =>
               \A t \in 1..Len(DocTxs(block)) :
                 \A o \in 1..Len(DocOutputs(DocTxs(block)[t])) :
                   HasBox(Connection, DocOutputs(DocTxs(block)[t])[o].boxId[1])
          /\ txn[1].step >= 4 =>
               \A c \in CreatedAndConsumed(block) :
                 SpentBy(Connection, c, DocHeight(block))
  /\ (IsSome(txn) /\ txn[1].block = Chained1 /\ txn[1].r.err) => txn[1].step = 1

\* The block whose second transaction spends two outputs of its first was
\* applied on a store that held neither box.
C39_Witness ==
  /\ Applied /\ last.block = Chained1
  /\ ~HasBox(last.db_before, "P") /\ ~HasBox(last.db_before, "Q1")
  /\ CreatedAndConsumed(Chained1) =
       { [box_id |-> "Q1", tx_id |-> "t1s", index |-> 0],
         [box_id |-> "P", tx_id |-> "t1s", index |-> 1] }
  /\ Spent(BoxRow(db, "P")) /\ Spent(BoxRow(db, "Q1"))

(***************************************************************************)
(* C40: the run loop never terminates and never stops retrying: after a    *)
(* sync_once that fails the loop sleeps and calls sync_once again; and if  *)
(* at least one node answers info with the height H, every block fetch     *)
(* succeeds within its 3 attempts and every apply succeeds, the store      *)
(* eventually contains every height up to H.                               *)
(***************************************************************************)
AllStored == BlockHeights(db) = 0..TipHeight

SyncOnceCalled == rounds' /= rounds /\ rounds' /= 0

C40_EventuallySynced ==
  /\ []<><<SyncOnceCalled>>_vars
  /\ <>AllStored

\* What does hold among such nodes: sync_once is called again and again, and
\* once the store holds a block it comes to hold every height up to the tip.
RetriesForever == []<><<SyncOnceCalled>>_vars

SyncedOnceBegun == [](Len(db.blocks) > 0 => <>AllStored)

====
